---- MODULE Spec2Model ----
(***************************************************************************)
(* Model of the spot-edit field engine: the text-splicing update of        *)
(* FieldUpdater.apply_updates, the name resolution of                      *)
(* FieldUpdater._fuzzy_match_field, the entry and position validation of   *)
(* FieldDetector and the save and load of TemplateStore.                   *)
(*                                                                         *)
(* A Python str is a sequence of one-character strings.  A Field is a      *)
(* record [id, name, positions, current_value]; a position is              *)
(* <<start, end>>.                                                         *)
(***************************************************************************)
EXTENDS Integers, Sequences, FiniteSets, TLC

VARIABLES
    document_text,  \* text of the stored template / text handed to detection
    fields,         \* field list of the stored template (the registry)
    pre_text,       \* document_text when the last request started
    pre_fields,     \* fields when the last request started
    updates,        \* the batch of FieldUpdate of the last request
    outcome,        \* "ready" | "noop" | "applied" | "FieldUpdateError" | ...
    reference,      \* the reference handed to name resolution
    matched,        \* index in fields of the field resolution returned, 0 = None
    response,       \* parsed JSON array handed to detection
    detected,       \* field list detection returned
    llm_reply,      \* what the LLM call of detection gave: "none" | "array" |
                    \* "not_array" | "not_json" | "AIClientError"
    requests,       \* number of update requests handled on the stored template
    files,          \* the storage directory: template id -> JSON data of its file
    saved_id,       \* the id the last save_template returned, NoId if none
    loaded,         \* the Template the last store call returned
    live,           \* ids a save returned (or found at start), not deleted since
    pre_files,      \* the storage directory when the last store call started
    called_id,      \* the template id of the last store call
    request,        \* the TemplateUpdateRequest of the last update_template
    clock,          \* what datetime.utcnow() shows
    call,           \* the last store call: "none" | "save" | "load" | ...
    upload_files,   \* uploads directory: the ids that have a document file
    upload_meta,    \* uploads directory: id -> data of its .meta.json file
    pre_upload_files,   \* upload_files when the last cleanup started
    pre_upload_meta,    \* upload_meta when the last cleanup started
    auto_cleanup_hours, \* DocumentStore.auto_cleanup_hours
    older_than_hours,   \* the argument of the last cleanup_old_uploads
    deleted_count,  \* what the last cleanup_old_uploads returned
    utcnow,         \* what datetime.utcnow() shows to the document store, hours
    max_retries,    \* AIClient.max_retries
    catch_all,      \* whether the other provider's package is missing
    pc,             \* call_llm: "idle" | "attempt" | "sleep" | "done"
    attempt,        \* call_llm: the loop variable
    provider_calls, \* number of provider calls of the call_llm call
    sleeps,         \* number of time.sleep calls of the call_llm call
    attempts,       \* what each provider call did, in order
    llm_result,     \* how call_llm ended: "none" | "returned" | an error
    proposal,       \* the JSON data of the update proposal the LLM gave
    parsed_update   \* the ParsedUpdate made of the proposal

\* The variables of the template store.
store_vars ==
    <<files, saved_id, loaded, live, pre_files, called_id, request, clock,
      call>>

\* The variables of the document store.
upload_vars ==
    <<upload_files, upload_meta, pre_upload_files, pre_upload_meta,
      auto_cleanup_hours, older_than_hours, deleted_count, utcnow>>

\* The variables of the AI client.
llm_vars ==
    <<max_retries, catch_all, pc, attempt, provider_calls, sleeps, attempts,
      llm_result>>

\* The variables of update proposal parsing.
parse_vars == <<proposal, parsed_update>>

other_vars == <<upload_vars, llm_vars, parse_vars>>

vars == <<document_text, fields, pre_text, pre_fields, updates, outcome,
          reference, matched, response, detected, llm_reply, requests,
          store_vars, other_vars>>

----------------------------------------------------------------------------
(* Bounds of the model.                                                    *)

MaxTextLen == 4

\* Defaults of the constructors.
DEFAULT_AUTO_CLEANUP_HOURS == 24
DEFAULT_MAX_RETRIES == 3
MaxPos == 4
MaxFields == 2
MaxRanges == 2
MaxBatch == 2

----------------------------------------------------------------------------
(* Strings.                                                                *)

Min(a, b) == IF a <= b THEN a ELSE b

\* Sequences over S of length lo..hi.
SeqsOf(S, lo, hi) == UNION {[1..n -> S] : n \in lo..hi}

UpperLetters == <<"A","B","C","D","E","F","G","H","I","J","K","L","M",
                  "N","O","P","Q","R","S","T","U","V","W","X","Y","Z">>

LowerLetters == <<"a","b","c","d","e","f","g","h","i","j","k","l","m",
                  "n","o","p","q","r","s","t","u","v","w","x","y","z">>

\* str.lower() on one character.
LowerChar(c) ==
    IF \E i \in 1..26 : UpperLetters[i] = c
    THEN LowerLetters[CHOOSE i \in 1..26 : UpperLetters[i] = c]
    ELSE c

\* str.lower()
Lower(s) == [i \in 1..Len(s) |-> LowerChar(s[i])]

\* str.replace(old, new) for a one-character old and new.
ReplaceChar(s, old, new) == [i \in 1..Len(s) |-> IF s[i] = old THEN new ELSE s[i]]

\* Python's  a in b  on strings: a occurs in b as a contiguous substring.
IsSubstring(a, b) ==
    \E k \in 0..(Len(b) - Len(a)) : \A i \in 1..Len(a) : b[k + i] = a[i]

\* Python's  s[a:b]  for 0 <= a, 0 <= b: both ends are clamped to len(s).
Slice(s, a, b) == SubSeq(s, Min(a, Len(s)) + 1, Min(b, Len(s)))

\* s[:a]
SliceTo(s, a) == Slice(s, 0, a)

\* s[a:]
SliceFrom(s, a) == Slice(s, a, Len(s))

----------------------------------------------------------------------------
(* FieldUpdater: name resolution.  A field is referred to by its index in  *)
(* existing_fields; 0 stands for None.                                     *)

\* field_map = {field.name: field for field in existing_fields};
\* field_map.get(field_name): the last field of that name wins.
field_map_get(field_name, existing_fields) ==
    LET S == {i \in 1..Len(existing_fields) : existing_fields[i].name = field_name}
    IN IF S = {} THEN 0 ELSE CHOOSE i \in S : \A j \in S : j <= i

\* field_name.lower().replace(" ", "_").replace("-", "_")
normalize_reference(field_name) ==
    ReplaceChar(ReplaceChar(Lower(field_name), " ", "_"), "-", "_")

\* The first loop of _fuzzy_match_field from index i on: the first field whose
\* lower-cased name equals field_name_lower.
RECURSIVE exact_match_loop(_, _, _)
exact_match_loop(field_name_lower, existing_fields, i) ==
    IF i > Len(existing_fields) THEN 0
    ELSE IF Lower(existing_fields[i].name) = field_name_lower THEN i
    ELSE exact_match_loop(field_name_lower, existing_fields, i + 1)

\* The second loop of _fuzzy_match_field from index i on.
RECURSIVE substring_match_loop(_, _, _)
substring_match_loop(field_name_lower, existing_fields, i) ==
    IF i > Len(existing_fields) THEN 0
    ELSE IF \/ IsSubstring(field_name_lower, Lower(existing_fields[i].name))
            \/ IsSubstring(Lower(existing_fields[i].name), field_name_lower)
         THEN i
    ELSE substring_match_loop(field_name_lower, existing_fields, i + 1)

\* A single loop returning the first field that matches by either rule.
RECURSIVE any_match_loop(_, _, _)
any_match_loop(field_name_lower, existing_fields, i) ==
    IF i > Len(existing_fields) THEN 0
    ELSE IF \/ Lower(existing_fields[i].name) = field_name_lower
            \/ IsSubstring(field_name_lower, Lower(existing_fields[i].name))
            \/ IsSubstring(Lower(existing_fields[i].name), field_name_lower)
         THEN i
    ELSE any_match_loop(field_name_lower, existing_fields, i + 1)

\* _fuzzy_match_field with its two loops merged into one.
fuzzy_match_field_one_pass(field_name, existing_fields) ==
    any_match_loop(normalize_reference(field_name), existing_fields, 1)

\* FieldUpdater._fuzzy_match_field
fuzzy_match_field(field_name, existing_fields) ==
    LET field_name_lower == normalize_reference(field_name)
        exact == exact_match_loop(field_name_lower, existing_fields, 1)
    IN IF exact # 0 THEN exact
       ELSE substring_match_loop(field_name_lower, existing_fields, 1)

\* The resolution step of apply_updates: field_map.get, then the fuzzy match.
resolve_field(field_name, existing_fields) ==
    LET field == field_map_get(field_name, existing_fields)
    IN IF field # 0 THEN field ELSE fuzzy_match_field(field_name, existing_fields)

----------------------------------------------------------------------------
(* FieldUpdater.apply_updates.  A replacement is [start, end, new_value].  *)

\* The expansion of a field into a replacement for its first position only.
field_replacements_first_only(field, new_value) ==
    <<[start |-> field.positions[1][1], end |-> field.positions[1][2],
       new_value |-> new_value]>>

\* for start, end in field.positions: replacements.append((start, end, new_value))
field_replacements(field, new_value) ==
    [p \in 1..Len(field.positions) |->
        [start |-> field.positions[p][1], end |-> field.positions[p][2],
         new_value |-> new_value]]

\* The collecting loop with the raise replaced by a skip of the update.
RECURSIVE collect_replacements_skip(_, _, _, _)
collect_replacements_skip(field_updates, existing_fields, i, acc) ==
    IF i > Len(field_updates) THEN [raised |-> FALSE, replacements |-> acc]
    ELSE LET field == resolve_field(field_updates[i].field_name, existing_fields)
         IN IF field = 0
            THEN collect_replacements_skip(field_updates, existing_fields, i + 1, acc)
            ELSE collect_replacements_skip(field_updates, existing_fields, i + 1,
                     acc \o field_replacements(existing_fields[field],
                                               field_updates[i].new_value))

\* The collecting loop of apply_updates from update i on, acc being the
\* replacements collected so far; it stops at the first update whose field is
\* not found (the raise).
RECURSIVE collect_replacements(_, _, _, _)
collect_replacements(field_updates, existing_fields, i, acc) ==
    IF i > Len(field_updates) THEN [raised |-> FALSE, replacements |-> acc]
    ELSE LET field == resolve_field(field_updates[i].field_name, existing_fields)
         IN IF field = 0
            THEN [raised |-> TRUE, replacements |-> acc]
            ELSE collect_replacements(field_updates, existing_fields, i + 1,
                     acc \o field_replacements(existing_fields[field],
                                               field_updates[i].new_value))

\* A sort by start ascending (the replacements applied left to right).
insert_by_start_asc(sorted, r) ==
    LET k == Cardinality({j \in 1..Len(sorted) : sorted[j].start <= r.start})
    IN SubSeq(sorted, 1, k) \o <<r>> \o SubSeq(sorted, k + 1, Len(sorted))

\* One step of a stable sort by start descending: r goes after every element
\* of sorted whose start is >= r.start.
insert_by_start_desc(sorted, r) ==
    LET k == Cardinality({j \in 1..Len(sorted) : sorted[j].start >= r.start})
    IN SubSeq(sorted, 1, k) \o <<r>> \o SubSeq(sorted, k + 1, Len(sorted))

\* replacements.sort(key=lambda x: x[0], reverse=True)   (list.sort is stable)
RECURSIVE sort_replacements(_)
sort_replacements(replacements) ==
    IF replacements = <<>> THEN <<>>
    ELSE insert_by_start_desc(
             sort_replacements(SubSeq(replacements, 1, Len(replacements) - 1)),
             replacements[Len(replacements)])

\* The splice that loses the text behind the replaced range.
splice_truncating(updated_text, r) ==
    SliceTo(updated_text, r.start) \o r.new_value

\* The splice that inserts the new value without removing the old one.
splice_insert_only(updated_text, r) ==
    SliceTo(updated_text, r.start) \o r.new_value \o SliceFrom(updated_text, r.start)

\* updated_text = updated_text[:start] + new_value + updated_text[end:]
splice(updated_text, r) ==
    SliceTo(updated_text, r.start) \o r.new_value \o SliceFrom(updated_text, r.end)

\* The applying loop of apply_updates.
RECURSIVE apply_replacements(_, _)
apply_replacements(updated_text, replacements) ==
    IF replacements = <<>> THEN updated_text
    ELSE apply_replacements(splice(updated_text, Head(replacements)),
                            Tail(replacements))

\* apply_updates refusing the empty batch instead of returning the text.
apply_updates_rejecting_empty(document_text_, field_updates, existing_fields) ==
    LET c == collect_replacements(field_updates, existing_fields, 1, <<>>)
    IN IF field_updates = <<>> \/ c.raised
       THEN [raised |-> TRUE, text |-> document_text_]
       ELSE [raised |-> FALSE,
             text |-> apply_replacements(document_text_,
                                         sort_replacements(c.replacements))]

\* FieldUpdater.apply_updates: raised = TRUE stands for FieldUpdateError
\* ("Field not found"), in which case nothing is returned.
apply_updates(document_text_, field_updates, existing_fields) ==
    IF field_updates = <<>> THEN [raised |-> FALSE, text |-> document_text_]
    ELSE LET c == collect_replacements(field_updates, existing_fields, 1, <<>>)
         IN IF c.raised
            THEN [raised |-> TRUE, text |-> document_text_]
            ELSE [raised |-> FALSE,
                  text |-> apply_replacements(document_text_,
                                              sort_replacements(c.replacements))]

----------------------------------------------------------------------------
(* The registry half of the update: the module-level apply_updates that    *)
(* routes.update_template_fields calls returns (updated_text,              *)
(* updated_fields).  Its field half follows section 4.2, steps 5 and 6.    *)

\* The updates of the batch that resolve to the field at index k.
updates_of_field(field_updates, existing_fields, k) ==
    {i \in 1..Len(field_updates) :
        resolve_field(field_updates[i].field_name, existing_fields) = k}

\* Step 5: every (start, end) becomes (start, start + len(new_value)) and the
\* field's value becomes new_value.
resize_field(field, new_value) ==
    [field EXCEPT
        !.positions = [p \in 1..Len(field.positions) |->
                          <<field.positions[p][1],
                            field.positions[p][1] + Len(new_value)>>],
        !.current_value = new_value]

\* Steps 5 and 6: updated fields are resized, the others kept verbatim.
updated_fields(field_updates, existing_fields) ==
    [k \in 1..Len(existing_fields) |->
        LET U == updates_of_field(field_updates, existing_fields, k)
        IN IF U = {} THEN existing_fields[k]
           ELSE resize_field(existing_fields[k],
                    field_updates[CHOOSE i \in U : \A j \in U : j <= i].new_value)]

----------------------------------------------------------------------------
(* Inputs of the update specification.                                     *)

TextAlphabet == {"a", "b"}

\* Document texts: every text of MaxTextLen - 1 or MaxTextLen characters that
\* starts with "a" (exchanging "a" and "b" throughout gives the others).
Texts == {t \in SeqsOf(TextAlphabet, MaxTextLen - 1, MaxTextLen) : t[1] = "a"}

\* Positions the Field validator accepts: 0 <= start < end.
Ranges == {r \in (0..MaxPos) \X (0..MaxPos) : r[1] < r[2]}

FieldNames == {<<"a", "b">>, <<"b">>}

\* Field(id, name, positions, current_value): the value is the text at the
\* first position, as detection reports it.
MakeField(id, name, positions, text) ==
    [id |-> id, name |-> name, positions |-> positions,
     current_value |-> Slice(text, positions[1][1], positions[1][2])]

TotalRanges(fs) ==
    LET RECURSIVE Sum(_)
        Sum(i) == IF i = 0 THEN 0 ELSE Len(fs[i].positions) + Sum(i - 1)
    IN Sum(Len(fs))

\* Field lists of a template on text: at most MaxFields fields, of distinct
\* names and ids, holding at most MaxRanges positions in all.
FieldLists(text) ==
    LET Names == SeqsOf(FieldNames, 0, MaxFields)
        Pos == SeqsOf(Ranges, 1, MaxRanges)
    IN UNION {
         {[k \in 1..Len(ns) |-> MakeField(k, ns[k], ps[k], text)] :
             ps \in {q \in [1..Len(ns) -> Pos] :
                       TotalRanges([k \in 1..Len(ns) |-> [positions |-> q[k]]])
                           <= MaxRanges}} :
         ns \in {n \in Names : \A i, j \in 1..Len(n) : i # j => n[i] # n[j]}}

\* References and new values a batch may carry.
References == {<<"b">>, <<"A">>, <<"z">>}

NewValues == {<<>>, <<"X">>, <<"X", "Y">>}

FieldUpdates == [field_name : References, new_value : NewValues]

Batches == SeqsOf(FieldUpdates, 0, MaxBatch)

NoUpdates == <<>>

----------------------------------------------------------------------------
(* The update specification: one template, one update request.             *)

\* No template id.
NoId == [kind |-> "none", n |-> 0]

\* No datetime.
NoTime == [kind |-> "none", t |-> 0]

\* No Template.
NoTemplate ==
    [id |-> NoId, name |-> <<>>, created_at |-> NoTime, updated_at |-> NoTime,
     document_text |-> <<>>, fields |-> <<>>, metadata |-> {}]

\* No TemplateUpdateRequest.
NoRequest ==
    [set |-> {}, name |-> <<>>, document_text |-> <<>>, fields |-> <<>>,
     metadata |-> {}]

\* No older_than_hours: None.
NoHours == [kind |-> "None", h |-> 0]

\* A document store on an empty directory, no cleanup called.
InitDocumentStore ==
    /\ upload_files = {}
    /\ upload_meta = <<>>
    /\ pre_upload_files = {}
    /\ pre_upload_meta = <<>>
    /\ auto_cleanup_hours = DEFAULT_AUTO_CLEANUP_HOURS
    /\ older_than_hours = NoHours
    /\ deleted_count = 0
    /\ utcnow = 0

\* call_llm has not ended.
NoResult == [kind |-> "none", text |-> ""]

\* An AI client with the default retries, call_llm not called.
InitAIClient ==
    /\ max_retries = DEFAULT_MAX_RETRIES
    /\ catch_all = FALSE
    /\ pc = "idle"
    /\ attempt = 0
    /\ provider_calls = 0
    /\ sleeps = 0
    /\ attempts = <<>>
    /\ llm_result = NoResult

\* No JSON data, and no ParsedUpdate.
NoProposal == [kind |-> "none"]
NoParsedUpdate == [updates |-> <<>>, unrecognized_parts |-> <<>>]

\* A template store on an empty directory and services that were not called.
InitRest ==
    /\ proposal = NoProposal
    /\ parsed_update = NoParsedUpdate
    /\ files = <<>>
    /\ saved_id = NoId
    /\ loaded = NoTemplate
    /\ live = {}
    /\ pre_files = <<>>
    /\ called_id = NoId
    /\ request = NoRequest
    /\ clock = 0
    /\ call = "none"
    /\ reference = <<>>
    /\ matched = 0
    /\ response = <<>>
    /\ detected = <<>>
    /\ llm_reply = "none"
    /\ requests = 0

InitOther ==
    /\ InitRest
    /\ InitDocumentStore
    /\ InitAIClient

Init ==
    /\ document_text \in Texts
    /\ fields \in FieldLists(document_text)
    /\ pre_text = document_text
    /\ pre_fields = fields
    /\ updates = NoUpdates
    /\ outcome = "ready"
    /\ InitOther

\* routes.update_template_fields with an empty batch: nothing is applied or
\* saved ("No field updates identified from command").
UpdateNothing ==
    /\ outcome = "ready"
    /\ updates' = NoUpdates
    /\ outcome' = "noop"
    /\ requests' = requests + 1
    /\ UNCHANGED <<document_text, fields, pre_text, pre_fields,
                   reference, matched, response, detected, llm_reply,
                   store_vars, other_vars>>

\* FieldUpdater.parse_and_apply when the parsed command holds no update:
\* apply_updates is called with the empty batch and its text is returned.
ParseAndApplyNothing ==
    /\ outcome = "ready"
    /\ LET r == apply_updates(document_text, NoUpdates, fields)
       IN /\ document_text' = r.text
          /\ outcome' = IF r.raised THEN "FieldUpdateError" ELSE "returned"
    /\ updates' = NoUpdates
    /\ requests' = requests + 1
    /\ UNCHANGED <<fields, pre_text, pre_fields, reference, matched, response,
                   detected, llm_reply, store_vars, other_vars>>

\* The handler saving the text but not the fields.
UpdateAppliedTextOnly(batches) ==
    /\ outcome = "ready"
    /\ \E field_updates \in batches :
          /\ field_updates # <<>>
          /\ LET r == apply_updates(document_text, field_updates, fields)
             IN /\ ~r.raised
                /\ document_text' = r.text
          /\ updates' = field_updates
    /\ outcome' = "applied"
    /\ requests' = requests + 1
    /\ UNCHANGED <<fields, pre_text, pre_fields, reference, matched, response,
                   detected, llm_reply, store_vars, other_vars>>

\* The handler resizing every field of the template, updated or not.
UpdateAppliedResizingAll(batches) ==
    /\ outcome = "ready"
    /\ \E field_updates \in batches :
          /\ field_updates # <<>>
          /\ LET r == apply_updates(document_text, field_updates, fields)
             IN /\ ~r.raised
                /\ document_text' = r.text
                /\ fields' = [k \in 1..Len(fields) |->
                                 resize_field(fields[k], field_updates[1].new_value)]
          /\ updates' = field_updates
    /\ outcome' = "applied"
    /\ requests' = requests + 1
    /\ UNCHANGED <<pre_text, pre_fields, reference, matched, response, detected,
                   llm_reply, store_vars, other_vars>>

\* routes.update_template_fields with a batch of batches that applies:
\* apply_updates, then update_template saves the text and the fields.
UpdateApplied(batches) ==
    /\ outcome = "ready"
    /\ \E field_updates \in batches :
          /\ field_updates # <<>>
          /\ LET r == apply_updates(document_text, field_updates, fields)
             IN /\ ~r.raised
                /\ document_text' = r.text
                /\ fields' = updated_fields(field_updates, fields)
          /\ updates' = field_updates
    /\ outcome' = "applied"
    /\ requests' = requests + 1
    /\ UNCHANGED <<pre_text, pre_fields, reference, matched, response, detected,
                   llm_reply, store_vars, other_vars>>

\* routes.update_template_fields with a batch of batches on which
\* apply_updates raises: the exception leaves the handler before
\* update_template is reached.
UpdateRaised(batches) ==
    /\ outcome = "ready"
    /\ \E field_updates \in batches :
          /\ field_updates # <<>>
          /\ apply_updates(document_text, field_updates, fields).raised
          /\ updates' = field_updates
    /\ outcome' = "FieldUpdateError"
    /\ requests' = requests + 1
    /\ UNCHANGED <<document_text, fields, pre_text, pre_fields,
                   reference, matched, response, detected, llm_reply,
                   store_vars, other_vars>>

Next ==
    \/ UpdateNothing
    \/ ParseAndApplyNothing
    \/ UpdateApplied(Batches)
    \/ UpdateRaised(Batches)

Spec == Init /\ [][Next]_vars

----------------------------------------------------------------------------
(* Vocabulary of the claims about one update request.                      *)

\* The targeted ranges of the request: <<k, p>> is position p of the field at
\* index k of pre_fields, k being the field some update of the batch resolves to.
Targeted ==
    {kp \in (1..Len(pre_fields)) \X (1..MaxRanges + 1) :
        /\ kp[2] <= Len(pre_fields[kp[1]].positions)
        /\ \E i \in 1..Len(updates) :
              resolve_field(updates[i].field_name, pre_fields) = kp[1]}

StartOf(kp) == pre_fields[kp[1]].positions[kp[2]][1]

EndOf(kp) == pre_fields[kp[1]].positions[kp[2]][2]

\* The new value the batch gives the field at index k (of its first update).
ValueOf(k) ==
    updates[CHOOSE i \in 1..Len(updates) :
               /\ resolve_field(updates[i].field_name, pre_fields) = k
               /\ \A j \in 1..(i - 1) :
                     resolve_field(updates[j].field_name, pre_fields) # k].new_value

\* The updates of the batch resolve to pairwise distinct fields.
DistinctFields ==
    \A i, j \in 1..Len(updates) :
        i # j => resolve_field(updates[i].field_name, pre_fields)
                     # resolve_field(updates[j].field_name, pre_fields)

\* Every targeted range lies in the text the request started from.
InBounds == \A kp \in Targeted : EndOf(kp) <= Len(pre_text)

\* No two targeted ranges overlap.
NonOverlapping ==
    \A x, y \in Targeted :
        x # y => (EndOf(x) <= StartOf(y) \/ EndOf(y) <= StartOf(x))

\* The simultaneous replacement read left to right from offset i of pre_text:
\* where a targeted range starts, its field's new value stands and reading
\* goes on at the range's end; elsewhere the character is kept.
RECURSIVE Simultaneous(_)
Simultaneous(i) ==
    IF i >= Len(pre_text) THEN <<>>
    ELSE IF \E kp \in Targeted : StartOf(kp) = i
         THEN LET kp == CHOOSE x \in Targeted : StartOf(x) = i
              IN ValueOf(kp[1]) \o Simultaneous(EndOf(kp))
         ELSE <<pre_text[i + 1]>> \o Simultaneous(i + 1)

OnlyTarget == resolve_field(updates[1].field_name, pre_fields)

\* Every range of the field at index k delimits an occurrence of its current
\* value in the text the request started from.
DelimitsValue(k) ==
    \A p \in 1..Len(pre_fields[k].positions) :
        /\ pre_fields[k].positions[p][2] <= Len(pre_text)
        /\ SubSeq(pre_text, pre_fields[k].positions[p][1] + 1,
                  pre_fields[k].positions[p][2]) = pre_fields[k].current_value

\* Where occurrence p of field k starts once every occurrence of the field
\* left of it has been resized to the length of v.
ShiftedStart(k, p, v) ==
    LET pos == pre_fields[k].positions
        Left == {q \in 1..Len(pos) : pos[q][1] < pos[p][1]}
        RECURSIVE Drift(_)
        Drift(S) == IF S = {} THEN 0
                    ELSE LET q == CHOOSE x \in S : TRUE
                         IN (Len(v) - (pos[q][2] - pos[q][1])) + Drift(S \ {q})
    IN pos[p][1] + Drift(Left)

\* C2: when a field with N ranges, each delimiting an occurrence of its
\* current value, is updated once, each of the N occurrences reads the new
\* value afterwards, and none of them still reads the old value.
C2_MultiOccurrence ==
    (outcome = "applied" /\ Len(updates) = 1 /\ DelimitsValue(OnlyTarget))
        => \A p \in 1..Len(pre_fields[OnlyTarget].positions) :
              LET v == updates[1].new_value
                  at == ShiftedStart(OnlyTarget, p, v)
                  now == Slice(document_text, at, at + Len(v))
              IN /\ now = v
                 /\ (v # pre_fields[OnlyTarget].current_value
                        => now # pre_fields[OnlyTarget].current_value)

C4_RangesCorrectForNewText ==
    (outcome = "applied" /\ DistinctFields /\ InBounds /\ NonOverlapping)
        => \A kp \in Targeted :
              LET r == fields[kp[1]].positions[kp[2]]
              IN /\ r[2] <= Len(document_text)
                 /\ SubSeq(document_text, r[1] + 1, r[2]) = ValueOf(kp[1])

\* No field of fs answers the reference: none has that name, none has the
\* normalized reference as its lower-cased name, inside it or around it.
Unresolvable(ref, fs) ==
    \A k \in 1..Len(fs) :
        /\ fs[k].name # ref
        /\ Lower(fs[k].name) # normalize_reference(ref)
        /\ ~IsSubstring(normalize_reference(ref), Lower(fs[k].name))
        /\ ~IsSubstring(Lower(fs[k].name), normalize_reference(ref))

\* C6: a batch that references a field absent from the registry fails with
\* the field-not-found error and applies nothing, wherever the bad update
\* stands in the batch: text and field list are as before the call.
C6_FieldNotFoundAppliesNothing ==
    (outcome # "ready"
       /\ \E i \in 1..Len(updates) : Unresolvable(updates[i].field_name, pre_fields))
        => /\ outcome = "FieldUpdateError"
           /\ document_text = pre_text
           /\ fields = pre_fields

\* C6 witness: the bad update comes second, after an update that resolves to
\* a field with a range in the text and would have changed it.
C6_Witness ==
    /\ outcome = "FieldUpdateError"
    /\ Len(updates) = 2
    /\ ~Unresolvable(updates[1].field_name, pre_fields)
    /\ Unresolvable(updates[2].field_name, pre_fields)
    /\ apply_updates(pre_text, <<updates[1]>>, pre_fields).text # pre_text
    /\ document_text = pre_text

\* C7: for a batch of two references of which one resolves and one does not,
\* no exception is raised and the resolved update is applied to the text.
C7_UnresolvedNeverBlocks ==
    \A i, j \in 1..Len(updates) :
        (/\ outcome # "ready"
         /\ Len(updates) = 2
         /\ i # j
         /\ ~Unresolvable(updates[i].field_name, pre_fields)
         /\ Unresolvable(updates[j].field_name, pre_fields))
            => /\ outcome = "applied"
               /\ document_text
                     = apply_updates(pre_text, <<updates[i]>>, pre_fields).text

----------------------------------------------------------------------------
(* The scenario specification: the document of the specification's         *)
(* examples, "Contract with John Doe signed by John Doe.", with the field  *)
(* client_name at [(13,21),(33,41)], and one update request on it.         *)

ScenarioText ==
    <<"C", "o", "n", "t", "r", "a", "c", "t", " ", "w", "i", "t", "h", " ",
      "J", "o", "h", "n", " ", "D", "o", "e", " ", "s", "i", "g", "n", "e",
      "d", " ", "b", "y", " ", "J", "o", "h", "n", " ", "D", "o", "e", ".">>

client_name ==
    <<"c", "l", "i", "e", "n", "t", "_", "n", "a", "m", "e">>

CLIENT_NAME_spaced ==
    <<"C", "L", "I", "E", "N", "T", " ", "N", "A", "M", "E">>

client ==
    <<"c", "l", "i", "e", "n", "t">>

totally_unknown_field ==
    <<"t", "o", "t", "a", "l", "l", "y", "_", "u", "n", "k", "n", "o", "w",
      "n", "_", "f", "i", "e", "l", "d">>

JohnDoe ==
    <<"J", "o", "h", "n", " ", "D", "o", "e">>

JaneSmith ==
    <<"J", "a", "n", "e", " ", "S", "m", "i", "t", "h">>

ScenarioFields ==
    <<[id |-> 1, name |-> client_name,
       positions |-> <<<<13, 21>>, <<33, 41>>>>, current_value |-> JohnDoe]>>

ScenarioReferences == {client_name, CLIENT_NAME_spaced, client, totally_unknown_field}

ScenarioValues == {JaneSmith, JohnDoe, <<>>}

ScenarioBatches ==
    SeqsOf([field_name : ScenarioReferences, new_value : ScenarioValues], 0, MaxBatch)

InitScenario ==
    /\ document_text = ScenarioText
    /\ fields = ScenarioFields
    /\ pre_text = document_text
    /\ pre_fields = fields
    /\ updates = NoUpdates
    /\ outcome = "ready"
    /\ InitOther

NextScenario ==
    \/ UpdateNothing
    \/ UpdateApplied(ScenarioBatches)
    \/ UpdateRaised(ScenarioBatches)

SpecScenario == InitScenario /\ [][NextScenario]_vars

\* The scenario's request: the one update client_name -> "Jane Smith".
ScenarioRequest ==
    /\ pre_text = ScenarioText
    /\ pre_fields = ScenarioFields
    /\ updates = <<[field_name |-> client_name, new_value |-> JaneSmith]>>
    /\ outcome # "ready"

----------------------------------------------------------------------------
(* The resolution specification: a registry of named fields and one        *)
(* reference resolved against it.                                          *)

MaxNameLen == 2
MaxRegistry == 2

NameAlphabet == {"a", "A", "b", "_", " ", "-"}

\* Field names and references: every string of at most MaxNameLen characters.
NameStrings == SeqsOf(NameAlphabet, 0, MaxNameLen)

\* A registry field; resolution reads nothing but the name.
NamedField(id, name) ==
    [id |-> id, name |-> name, positions |-> <<<<0, 1>>>>,
     current_value |-> <<"a">>]

Registries ==
    {[k \in 1..Len(ns) |-> NamedField(k, ns[k])] :
        ns \in SeqsOf(NameStrings, 0, MaxRegistry)}

InitResolve ==
    /\ fields \in Registries
    /\ document_text = <<"a">>
    /\ pre_text = document_text
    /\ pre_fields = fields
    /\ updates = NoUpdates
    /\ outcome = "ready"
    /\ InitOther

\* A call of FieldUpdater._fuzzy_match_field(field_name, fields).
FuzzyMatch ==
    /\ outcome = "ready"
    /\ \E field_name \in NameStrings :
          /\ reference' = field_name
          /\ matched' = fuzzy_match_field(field_name, fields)
    /\ outcome' = "matched"
    /\ UNCHANGED <<document_text, fields, pre_text, pre_fields, updates,
                   response, detected, llm_reply, requests, store_vars, other_vars>>

\* The resolution of one update's field_name inside apply_updates.
ResolveReference ==
    /\ outcome = "ready"
    /\ \E field_name \in NameStrings :
          /\ reference' = field_name
          /\ matched' = resolve_field(field_name, fields)
    /\ outcome' = "resolved"
    /\ UNCHANGED <<document_text, fields, pre_text, pre_fields, updates,
                   response, detected, llm_reply, requests, store_vars, other_vars>>

NextResolve ==
    \/ FuzzyMatch
    \/ ResolveReference

SpecResolve == InitResolve /\ [][NextResolve]_vars

\* One character up to letter case and to the separator used.
FoldChar(c) == IF c \in {" ", "-", "_"} THEN "_" ELSE LowerChar(c)

\* a and b differ only in letter case and in which separator they use.
SameUpToCaseAndSeparator(a, b) ==
    /\ Len(a) = Len(b)
    /\ \A i \in 1..Len(a) : FoldChar(a[i]) = FoldChar(b[i])

\* C8: name resolution is case- and separator-insensitive: a reference that
\* differs from a registered field's name only in letter case and in the
\* separator used (space, hyphen, underscore) resolves to that field (stated
\* for the references that are so related to one field of the registry only).
C8_CaseAndSeparatorInsensitive ==
    outcome = "resolved" =>
        \A k \in 1..Len(fields) :
            (/\ SameUpToCaseAndSeparator(reference, fields[k].name)
             /\ \A j \in 1..Len(fields) :
                   j # k => ~SameUpToCaseAndSeparator(reference, fields[j].name))
                => matched = k

ExactAt(k) == Lower(fields[k].name) = normalize_reference(reference)

SubstringAt(k) ==
    \/ IsSubstring(normalize_reference(reference), Lower(fields[k].name))
    \/ IsSubstring(Lower(fields[k].name), normalize_reference(reference))

\* The first index of the registry at which P holds, 0 if there is none.
FirstIndex(P(_)) ==
    IF \E k \in 1..Len(fields) : P(k)
    THEN CHOOSE k \in 1..Len(fields) : P(k) /\ \A j \in 1..(k - 1) : ~P(j)
    ELSE 0

\* C9: _fuzzy_match_field returns the first field whose lower-cased name
\* equals the normalized reference, wherever it stands and whatever substring
\* candidates stand before it; if there is none, the first field in registry
\* order whose lower-cased name contains the normalized reference or is
\* contained in it; if there is none either, no field.
C9_MatchingOrder ==
    outcome = "matched" =>
        matched = IF \E k \in 1..Len(fields) : ExactAt(k)
                  THEN FirstIndex(ExactAt)
                  ELSE FirstIndex(SubstringAt)

\* C9 witness: the exact match stands second, behind a field that is a
\* substring candidate only, and is the one returned.
C9_Witness ==
    /\ outcome = "matched"
    /\ Len(fields) = 2
    /\ fields[1].name # <<>>
    /\ SubstringAt(1) /\ ~ExactAt(1)
    /\ ExactAt(2)
    /\ matched = 2

----------------------------------------------------------------------------
(* The sequence specification: a template that satisfies the Document      *)
(* invariant when it is created, and up to MaxRequests update requests on   *)
(* it, each applied to the text and the fields the previous one saved.      *)

MaxRequests == 2

\* The field list fs satisfies the Document invariant on text: every range
\* lies in the text and reads its field's current value, and no two ranges
\* overlap.
DocumentInvariant(text, fs) ==
    /\ \A k \in 1..Len(fs) : \A p \in 1..Len(fs[k].positions) :
          /\ fs[k].positions[p][2] <= Len(text)
          /\ SubSeq(text, fs[k].positions[p][1] + 1, fs[k].positions[p][2])
                = fs[k].current_value
    /\ \A k, l \in 1..Len(fs) :
          \A p \in 1..Len(fs[k].positions), q \in 1..Len(fs[l].positions) :
              <<k, p>> # <<l, q>> =>
                  \/ fs[k].positions[p][2] <= fs[l].positions[q][1]
                  \/ fs[l].positions[q][2] <= fs[k].positions[p][1]

\* Templates the sequence starts from.
StoredTexts == {t \in Texts : Len(t) = MaxTextLen - 1}

StoredFieldLists(text) == {fs \in FieldLists(text) : DocumentInvariant(text, fs)}

\* Batches of a request on the field list fs: each update names a reference
\* and gives the current value of a field of fs or the empty value.
StoredBatches(fs) ==
    SeqsOf([field_name : References,
            new_value : {fs[k].current_value : k \in 1..Len(fs)}
                            \cup {<<>>}],
           1, MaxBatch)

InitSequence ==
    /\ document_text \in StoredTexts
    /\ fields \in StoredFieldLists(document_text)
    /\ pre_text = document_text
    /\ pre_fields = fields
    /\ updates = NoUpdates
    /\ outcome = "ready"
    /\ InitOther

\* routes.update_template_fields on the stored template, with a batch that
\* applies: load_template, apply_updates, update_template.
RequestApplied ==
    /\ requests < MaxRequests
    /\ \E field_updates \in StoredBatches(fields) :
          /\ LET r == apply_updates(document_text, field_updates, fields)
             IN /\ ~r.raised
                /\ document_text' = r.text
                /\ fields' = updated_fields(field_updates, fields)
          /\ updates' = field_updates
    /\ pre_text' = document_text
    /\ pre_fields' = fields
    /\ outcome' = "applied"
    /\ requests' = requests + 1
    /\ UNCHANGED <<reference, matched, response, detected, llm_reply, store_vars, other_vars>>

\* routes.update_template_fields on the stored template, with a batch on
\* which apply_updates raises: nothing is saved.
RequestRaised ==
    /\ requests < MaxRequests
    /\ \E field_updates \in StoredBatches(fields) :
          /\ apply_updates(document_text, field_updates, fields).raised
          /\ updates' = field_updates
    /\ pre_text' = document_text
    /\ pre_fields' = fields
    /\ outcome' = "FieldUpdateError"
    /\ requests' = requests + 1
    /\ UNCHANGED <<document_text, fields, reference, matched, response, detected,
                   llm_reply, store_vars, other_vars>>

NextSequence ==
    \/ RequestApplied
    \/ RequestRaised

SpecSequence == InitSequence /\ [][NextSequence]_vars

----------------------------------------------------------------------------
(* FieldDetector.  The LLM response, once json.loads has made a list of    *)
(* it, is a sequence of entries.  An entry is a record: keys is the set of  *)
(* keys the dict holds, name / type / positions / current_value their      *)
(* values.  A raw position is [kind, a, b]: kind "ints" is a two-element    *)
(* list of the integers a and b, "not_list" a value that is no list,       *)
(* "wrong_len" a list of another length, "not_int" a two-element list with *)
(* an element that is no int.                                              *)

\* A two-element list of integers that fails none of the range tests.
valid_position_unbounded(pos, doc_length) ==
    /\ pos.kind = "ints"
    /\ ~(pos.a < 0 \/ pos.b < 0 \/ pos.a >= pos.b)

\* The tests of the position loop of _create_field_from_dict: TRUE when pos
\* reaches validated_positions.append.
valid_position(pos, doc_length) ==
    /\ pos.kind # "not_list" /\ pos.kind # "wrong_len"
    /\ pos.kind # "not_int"
    /\ ~(pos.a < 0 \/ pos.b < 0 \/ pos.a >= pos.b)
    /\ ~(pos.b > doc_length)

\* The position loop putting every valid position in front of the ones it
\* has already taken.
RECURSIVE validated_positions_reversed(_, _, _)
validated_positions_reversed(positions, doc_length, i) ==
    IF i > Len(positions) THEN <<>>
    ELSE IF \/ positions[i].kind # "ints"
            \/ positions[i].a < 0 \/ positions[i].b < 0
            \/ positions[i].a >= positions[i].b
            \/ positions[i].b > doc_length
         THEN validated_positions_reversed(positions, doc_length, i + 1)
         ELSE validated_positions_reversed(positions, doc_length, i + 1)
                  \o <<<<positions[i].a, positions[i].b>>>>

\* The position loop of _create_field_from_dict from raw position i on.
RECURSIVE validated_positions(_, _, _)
validated_positions(positions, doc_length, i) ==
    IF i > Len(positions) THEN <<>>
    ELSE IF valid_position(positions[i], doc_length)
         THEN <<<<positions[i].a, positions[i].b>>>>
                  \o validated_positions(positions, doc_length, i + 1)
         ELSE validated_positions(positions, doc_length, i + 1)

NoField == [name |-> <<>>, type |-> "", positions |-> <<>>, current_value |-> <<>>]

\* The types of the Field model.
FieldTypes == {"text", "date", "number", "email", "phone", "address", "custom"}

\* _create_field_from_dict taking every type of the Field model.
create_field_from_dict_any_type(data, document_text_) ==
    IF {"name", "type", "positions"} \subseteq data.keys
         /\ data.type \in FieldTypes
         /\ validated_positions(data.positions, Len(document_text_), 1) # <<>>
    THEN [raised |-> FALSE,
          field |-> [name |-> data.name, type |-> data.type,
                     positions |-> validated_positions(data.positions,
                                                       Len(document_text_), 1),
                     current_value |-> data.current_value]]
    ELSE [raised |-> TRUE, field |-> NoField]

\* FieldDetector._create_field_from_dict: raised = TRUE stands for ValueError.
create_field_from_dict(data, document_text_) ==
    IF "name" \notin data.keys THEN [raised |-> TRUE, field |-> NoField]
    ELSE IF "type" \notin data.keys THEN [raised |-> TRUE, field |-> NoField]
    ELSE IF "positions" \notin data.keys THEN [raised |-> TRUE, field |-> NoField]
    ELSE IF data.type \notin {"text", "date", "number"}
         THEN [raised |-> TRUE, field |-> NoField]
    ELSE LET validated == validated_positions(data.positions, Len(document_text_), 1)
         IN IF validated = <<>>
            THEN [raised |-> TRUE, field |-> NoField]
            ELSE [raised |-> FALSE,
                  field |-> [name |-> data.name, type |-> data.type,
                             positions |-> validated,
                             current_value |-> data.current_value]]

\* The entry loop without its try/except: the first entry that raises ends
\* the loop and the entries behind it are lost.
RECURSIVE parse_llm_response_abort(_, _, _)
parse_llm_response_abort(field_data, document_text_, i) ==
    IF i > Len(field_data) THEN <<>>
    ELSE LET r == create_field_from_dict(field_data[i], document_text_)
         IN IF r.raised
            THEN <<>>
            ELSE <<r.field>>
                     \o parse_llm_response_abort(field_data, document_text_, i + 1)

\* The entry loop of FieldDetector._parse_llm_response from entry i on: an
\* entry that raises is skipped with a warning.
RECURSIVE parse_llm_response(_, _, _)
parse_llm_response(field_data, document_text_, i) ==
    IF i > Len(field_data) THEN <<>>
    ELSE LET r == create_field_from_dict(field_data[i], document_text_)
         IN IF r.raised
            THEN parse_llm_response(field_data, document_text_, i + 1)
            ELSE <<r.field>> \o parse_llm_response(field_data, document_text_, i + 1)

\* not document_text or not document_text.strip()
IsBlank(text) == \A i \in 1..Len(text) : text[i] \in {" ", "\t", "\n"}

----------------------------------------------------------------------------
(* The detection specification: one document, one detection call.          *)

MaxDetectLen == 2
MaxEntries == 2
MaxRawPositions == 2

\* Documents handed to detection: "", "a", "aa", ...
DetectTexts == {[i \in 1..n |-> "a"] : n \in 0..MaxDetectLen}

RawPositions ==
    {[kind |-> "ints", a |-> a, b |-> b] :
        a \in (-1)..MaxDetectLen, b \in 0..(MaxDetectLen + 1)}
    \cup {[kind |-> k, a |-> 0, b |-> 0] : k \in {"not_list", "wrong_len", "not_int"}}

AllKeys == {"name", "type", "positions", "current_value"}

\* What an entry may be apart from its positions: complete with a type that
\* detection accepts, complete with a type it does not, or lacking a key.
EntryShapes ==
    {[keys |-> AllKeys, type |-> t] : t \in {"text", "email", "custom"}} \cup
    {[keys |-> AllKeys \ {"name"}, type |-> "text"],
     [keys |-> AllKeys \ {"type"}, type |-> "text"],
     [keys |-> AllKeys \ {"positions"}, type |-> "text"]}

DetectNames == {<<"a">>, <<"b">>}

Entry(shape, name, positions) ==
    [keys |-> shape.keys, name |-> name, type |-> shape.type,
     positions |-> positions, current_value |-> <<"a">>]

EntriesWith(n) ==
    {Entry(sh, nm, ps) :
        sh \in EntryShapes, nm \in DetectNames, ps \in SeqsOf(RawPositions, 0, n)}

\* Responses: at most MaxEntries entries holding at most MaxRawPositions raw
\* positions in all.
Responses ==
    {<<>>}
    \cup {<<e>> : e \in EntriesWith(MaxRawPositions)}
    \cup {r \in SeqsOf(EntriesWith(MaxRawPositions), 2, MaxEntries) :
            TotalRanges(r) <= MaxRawPositions}

InitDetect ==
    /\ document_text \in DetectTexts
    /\ fields = <<>>
    /\ pre_text = document_text
    /\ pre_fields = fields
    /\ updates = NoUpdates
    /\ outcome = "ready"
    /\ InitOther

\* detect_fields on a blank document: [] without a call of the LLM.
DetectBlank ==
    /\ outcome = "ready"
    /\ IsBlank(document_text)
    /\ detected' = <<>>
    /\ outcome' = "blank"
    /\ UNCHANGED <<document_text, fields, pre_text, pre_fields, updates,
                   reference, matched, response, llm_reply, requests,
                   store_vars, other_vars>>

\* detect_fields when the LLM's response holds a JSON array field_data.
DetectFields ==
    /\ outcome = "ready"
    /\ ~IsBlank(document_text)
    /\ \E field_data \in Responses :
          /\ response' = field_data
          /\ detected' = parse_llm_response(field_data, document_text, 1)
    /\ llm_reply' = "array"
    /\ outcome' = "detected"
    /\ UNCHANGED <<document_text, fields, pre_text, pre_fields, updates,
                   reference, matched, requests, store_vars, other_vars>>

\* detect_fields when the LLM call fails (AIClientError), json.loads fails on
\* the extracted text (not_json) or gives something that is no list
\* (not_array): FieldDetectionError.
DetectFails ==
    /\ outcome = "ready"
    /\ ~IsBlank(document_text)
    /\ llm_reply' \in {"not_array", "not_json", "AIClientError"}
    /\ detected' = <<>>
    /\ outcome' = "FieldDetectionError"
    /\ UNCHANGED <<document_text, fields, pre_text, pre_fields, updates,
                   reference, matched, response, requests, store_vars, other_vars>>

NextDetect ==
    \/ DetectBlank
    \/ DetectFields
    \/ DetectFails

SpecDetect == InitDetect /\ [][NextDetect]_vars

\* C10: every field detection returns has a non-empty position list, and
\* each of its positions is a pair of integers with
\* 0 <= start < end <= len(document_text).
C10_DetectedRangesValid ==
    outcome = "detected" =>
        \A f \in 1..Len(detected) :
            /\ Len(detected[f].positions) > 0
            /\ \A p \in 1..Len(detected[f].positions) :
                  LET pos == detected[f].positions[p]
                  IN /\ Len(pos) = 2
                     /\ pos[1] \in Int /\ pos[2] \in Int
                     /\ 0 <= pos[1] /\ pos[1] < pos[2]
                     /\ pos[2] <= Len(document_text)

\* C10 witness: an entry with one valid position and one that ends past the
\* document has been detected, and the field holds the valid one only.
C10_Witness ==
    /\ outcome = "detected"
    /\ Len(response) = 1 /\ Len(detected) = 1
    /\ Len(response[1].positions) = 2
    /\ \E p \in 1..2 :
          /\ response[1].positions[p].kind = "ints"
          /\ response[1].positions[p].a >= 0
          /\ response[1].positions[p].a < response[1].positions[p].b
          /\ response[1].positions[p].b > Len(document_text)
    /\ Len(detected[1].positions) = 1

\* The j-th smallest element of a set S of numbers.
NthOf(S, j) == CHOOSE x \in S : Cardinality({y \in S : y <= x}) = j

\* A raw position is a pair of integers with 0 <= start < end <= n.
PositionPasses(pos, n) ==
    pos.kind = "ints" /\ 0 <= pos.a /\ pos.a < pos.b /\ pos.b <= n

\* The raw positions of entry e that pass, by index.
PassingPositions(e, n) ==
    {p \in 1..Len(e.positions) : PositionPasses(e.positions[p], n)}

\* Entry e passes validation: it carries name, type and positions, its type
\* is one detection accepts and at least one of its positions passes.
EntryPasses(e, n) ==
    /\ {"name", "type", "positions"} \subseteq e.keys
    /\ e.type \in {"text", "date", "number"}
    /\ PassingPositions(e, n) # {}

\* The entries of the response that pass validation, by index.
PassingEntries == {i \in 1..Len(response) : EntryPasses(response[i], Len(document_text))}

\* C11: for a response that parses as a JSON array, detection raises nothing
\* and returns exactly the entries that pass validation, in response order
\* (an invalid entry neither fails the call nor costs a valid one);
\* FieldDetectionError is raised only when the reply is not a JSON array.
C11_PerEntryRecovery ==
    /\ llm_reply = "array" =>
          /\ outcome = "detected"
          /\ Len(detected) = Cardinality(PassingEntries)
          /\ \A j \in 1..Len(detected) :
                LET e == response[NthOf(PassingEntries, j)]
                IN /\ detected[j].name = e.name
                   /\ detected[j].type = e.type
                   /\ detected[j].current_value = e.current_value
    /\ outcome = "FieldDetectionError" => llm_reply # "array"

\* C11 witness: an entry that fails validation stands before one that passes,
\* and the one that passes is returned.
C11_Witness ==
    /\ outcome = "detected"
    /\ Len(response) = 2
    /\ PassingEntries = {2}
    /\ Len(detected) = 1
    /\ detected[1].name = response[2].name

\* Positions x and y overlap as half-open ranges.
Overlap(x, y) == x[1] < y[2] /\ y[1] < x[2]

\* No range of one field of fs overlaps a range of a field of fs of another
\* name.
NoCrossFieldOverlap(fs) ==
    \A f, g \in 1..Len(fs) :
        fs[f].name # fs[g].name =>
                 \A p \in 1..Len(fs[f].positions), q \in 1..Len(fs[g].positions) :
                    ~Overlap(fs[f].positions[p], fs[g].positions[q])

\* C12: a field set in which a range of one field overlaps a range of
\* another field is rejected at ingestion: no field list that detection
\* returns holds two different fields with overlapping ranges.
C12_IngestionRejectsOverlap ==
    outcome = "detected" => NoCrossFieldOverlap(detected)

\* The fields of fs have pairwise distinct names.
UniqueNames(fs) ==
    \A f, g \in 1..Len(fs) : f # g => fs[f].name # fs[g].name

\* C13: field names are unique within a field set: a detection result that
\* contains two entries of the same name does not produce two fields of that
\* name.
C13_DetectedNamesUnique ==
    outcome = "detected" => UniqueNames(detected)

\* What replacing the targeted range kp adds to the length of the text.
RangeDelta(kp) == Len(ValueOf(kp[1])) - (EndOf(kp) - StartOf(kp))

\* The sum of RangeDelta over a set S of targeted ranges.
RECURSIVE SumRangeDelta(_)
SumRangeDelta(S) ==
    IF S = {} THEN 0
    ELSE LET x == CHOOSE y \in S : TRUE
         IN RangeDelta(x) + SumRangeDelta(S \ {x})

\* The fields the batch resolves to, by index in pre_fields.
TargetedFields == {kp[1] : kp \in Targeted}

\* All ranges of the field at index k have the same length.
EqualOldLength(k) ==
    \A p, q \in 1..Len(pre_fields[k].positions) :
        EndOf(<<k, p>>) - StartOf(<<k, p>>) = EndOf(<<k, q>>) - StartOf(<<k, q>>)

\* The length difference of the field at index k as the length law counts
\* it: once when all its ranges have the same old length, per range otherwise.
FieldDeltaAsStated(k) ==
    IF EqualOldLength(k) THEN RangeDelta(<<k, 1>>)
    ELSE SumRangeDelta({kp \in Targeted : kp[1] = k})

\* The sum of FieldDeltaAsStated over a set S of field indices.
RECURSIVE SumFieldDeltaAsStated(_)
SumFieldDeltaAsStated(S) ==
    IF S = {} THEN 0
    ELSE LET k == CHOOSE y \in S : TRUE
         IN FieldDeltaAsStated(k) + SumFieldDeltaAsStated(S \ {k})

\* C14 as stated: for a batch touching disjoint fields the final length is
\* the original length plus the sum of len(new_value) - len(old_value) over
\* the resolved updates, counted once per field when all ranges of the field
\* had the same old length and per range replaced otherwise.
C14_LengthLawAsStated ==
    (outcome = "applied" /\ DistinctFields /\ InBounds /\ NonOverlapping)
        => Len(document_text)
              = Len(pre_text) + SumFieldDeltaAsStated(TargetedFields)

\* C14 amended: for a batch touching disjoint fields, with in-bounds and
\* non-overlapping ranges, the final length is the original length plus the
\* sum, over every range replaced, of len(new_value) - (end - start).
C14_LengthLawPerRange ==
    (outcome = "applied" /\ DistinctFields /\ InBounds /\ NonOverlapping)
        => Len(document_text) = Len(pre_text) + SumRangeDelta(Targeted)

\* C14 witness: a field with two ranges of the same length has been updated
\* with a value of another length, and the text has grown or shrunk twice.
C14_Witness ==
    /\ outcome = "applied" /\ DistinctFields /\ InBounds /\ NonOverlapping
    /\ \E k \in TargetedFields :
          /\ Len(pre_fields[k].positions) = 2
          /\ EqualOldLength(k)
          /\ RangeDelta(<<k, 1>>) # 0
          /\ Len(document_text) = Len(pre_text) + 2 * RangeDelta(<<k, 1>>)

\* Every update of the batch resolves to a field and sets it to the value the
\* field held when the request started.
SetsCurrentValues ==
    \A i \in 1..Len(updates) :
        LET k == resolve_field(updates[i].field_name, pre_fields)
        IN k # 0 /\ updates[i].new_value = pre_fields[k].current_value

\* C15: idempotence: when every range of every targeted field delimits the
\* field's current value, a batch that sets each targeted field to its
\* current value leaves the text and all ranges unchanged, and applying the
\* same batch to the result once more changes nothing either.
C15_Idempotence ==
    (/\ outcome = "applied"
     /\ SetsCurrentValues
     /\ \A k \in TargetedFields : DelimitsValue(k))
        => /\ document_text = pre_text
           /\ fields = pre_fields
           /\ LET again == apply_updates(document_text, updates, fields)
              IN /\ ~again.raised
                 /\ again.text = document_text
                 /\ updated_fields(updates, fields) = fields

\* C15 witness: a field with two ranges and a non-empty value, standing
\* before the end of the text, has been set to its current value.
C15_Witness ==
    /\ outcome = "applied"
    /\ SetsCurrentValues
    /\ \A k \in TargetedFields : DelimitsValue(k)
    /\ \E k \in TargetedFields :
          /\ Len(pre_fields[k].positions) = 2
          /\ pre_fields[k].current_value # <<>>
          /\ \E p \in 1..2 : pre_fields[k].positions[p][2] < Len(pre_text)
    /\ document_text = pre_text
    /\ fields = pre_fields

\* The batch of the request in the order perm.
Permuted(perm) == [i \in 1..Len(updates) |-> updates[perm[i]]]

\* C16: batch order carries no semantic weight: for a batch whose updates
\* resolve to fields with in-bounds, pairwise non-overlapping ranges,
\* apply_updates returns the same text for every permutation of the batch.
C16_BatchOrderIrrelevant ==
    (outcome = "applied" /\ InBounds /\ NonOverlapping)
        => \A perm \in Permutations(1..Len(updates)) :
              LET r == apply_updates(pre_text, Permuted(perm), pre_fields)
              IN ~r.raised /\ r.text = document_text

\* C16 for batches whose updates resolve to pairwise distinct fields.
BatchOrderIrrelevantForDistinctFields ==
    DistinctFields => C16_BatchOrderIrrelevant

\* C17: the Range invariant survives updates: after any sequence of update
\* batches on a template that satisfied it, each batch applied to the text
\* and the fields the previous one left, every range (start, end) of every
\* field satisfies 0 <= start < end <= len(document_text).
C17_RangeInvariantSurvives ==
    \A k \in 1..Len(fields) : \A p \in 1..Len(fields[k].positions) :
        /\ 0 <= fields[k].positions[p][1]
        /\ fields[k].positions[p][1] < fields[k].positions[p][2]
        /\ fields[k].positions[p][2] <= Len(document_text)

\* C18: fields not present in the update batch keep their ranges, name, id
\* and current value verbatim, even when a field further left in the text is
\* resized by the same batch: their ranges are not shifted.
C18_UntouchedFieldsVerbatim ==
    outcome = "applied" =>
        /\ Len(fields) = Len(pre_fields)
        /\ \A k \in 1..Len(pre_fields) :
              updates_of_field(updates, pre_fields, k) = {} =>
                  /\ fields[k].positions = pre_fields[k].positions
                  /\ fields[k].name = pre_fields[k].name
                  /\ fields[k].id = pre_fields[k].id
                  /\ fields[k].current_value = pre_fields[k].current_value

\* C18 witness: the batch resizes a field and leaves alone a field whose
\* range lies further right, which still has the range it had.
C18_Witness ==
    /\ outcome = "applied" /\ InBounds /\ NonOverlapping
    /\ \E x \in Targeted : \E k \in 1..Len(pre_fields) :
          /\ updates_of_field(updates, pre_fields, k) = {}
          /\ RangeDelta(x) # 0
          /\ EndOf(x) <= pre_fields[k].positions[1][1]
          /\ pre_fields[k].positions[1][2] <= Len(pre_text)
          /\ fields[k] = pre_fields[k]

\* C19: an empty update batch is a no-op: apply_updates with no updates
\* raises nothing, returns the document text unchanged and leaves the field
\* list unchanged, whatever the text and the fields are.
C19_EmptyBatchNoOp ==
    (outcome # "ready" /\ updates = NoUpdates)
        => /\ outcome \in {"noop", "returned"}
           /\ document_text = pre_text
           /\ fields = pre_fields

\* C19 witness: apply_updates has returned from the empty batch on a template
\* that holds a field with a range in the text.
C19_Witness ==
    /\ outcome = "returned"
    /\ updates = NoUpdates
    /\ Len(fields) > 0
    /\ fields[1].positions[1][2] <= Len(document_text)
    /\ document_text = pre_text

----------------------------------------------------------------------------
(* TemplateStore.  An id is [kind, n]: kind "UUID" is a uuid.UUID object,   *)
(* kind "str" its string, n tells ids apart.  The storage directory is a    *)
(* function from n to the JSON data of the file n.json.  In JSON data a     *)
(* position is a two-element list of integers, [kind |-> "ints", a, b], as  *)
(* in a detection response.                                                 *)

MaxTemplates == 2

\* uuid4(): a UUID object that no file of the directory is named after.
uuid4(files_) ==
    [kind |-> "UUID",
     n |-> CHOOSE n \in 1..(MaxTemplates + 1) : n \notin DOMAIN files_]

\* str(uuid)
str_of(id) == [kind |-> "str", n |-> id.n]

\* pydantic's validation of a value for a field annotated str: a str is
\* taken, a UUID object is refused ("Input should be a valid string").
valid_str(v) == v.kind = "str"

\* datetime.utcnow() when the clock shows t.
datetime(t) == [kind |-> "datetime", t |-> t]

\* datetime.isoformat(): the string of a datetime.
isoformat(d) == [kind |-> "iso", t |-> d.t]

\* pydantic's validation of a value for a field annotated datetime: a
\* datetime is taken and an ISO string is parsed.
valid_datetime(v) == v.kind \in {"datetime", "iso"}
parse_datetime(v) == datetime(v.t)

\* Template(id=..., name=..., document_text=..., fields=..., metadata=...)
\* built when the clock shows now: raised = TRUE stands for pydantic's
\* ValidationError.  A metadata dict is a set of <<key, value>> pairs with
\* one pair per key.
new_Template(id, name, document_text_, fields_, metadata, now) ==
    IF ~valid_str(id) THEN [raised |-> TRUE, template |-> NoTemplate]
    ELSE [raised |-> FALSE,
          template |-> [id |-> id, name |-> name,
                        created_at |-> datetime(now),
                        updated_at |-> datetime(now),
                        document_text |-> document_text_, fields |-> fields_,
                        metadata |-> metadata]]

\* field.model_dump(mode='json'): every position tuple becomes a list.
field_to_dict(field) ==
    [id |-> field.id, name |-> field.name,
     positions |-> [p \in 1..Len(field.positions) |->
                       [kind |-> "ints", a |-> field.positions[p][1],
                        b |-> field.positions[p][2]]],
     current_value |-> field.current_value]

\* An element of template.fields that is a dict, not a Field: it has no
\* model_dump method.
is_dict(field) == "dict" \in DOMAIN field

\* TemplateStore._template_to_dict raises AttributeError at
\* field.model_dump when an element of template.fields is a dict.
template_to_dict_raises(template) ==
    \E k \in 1..Len(template.fields) : is_dict(template.fields[k])

\* TemplateStore._template_to_dict
template_to_dict(template) ==
    [id |-> str_of(template.id), name |-> template.name,
     created_at |-> isoformat(template.created_at),
     updated_at |-> isoformat(template.updated_at),
     document_text |-> template.document_text,
     fields |-> [k \in 1..Len(template.fields) |->
                    field_to_dict(template.fields[k])],
     metadata |-> template.metadata]

\* Field.validate_positions on the positions pydantic has parsed: TRUE when
\* the validator raises nothing.
validate_positions(positions) ==
    \A p \in 1..Len(positions) :
        /\ ~(positions[p][1] < 0 \/ positions[p][2] < 0)
        /\ ~(positions[p][1] >= positions[p][2])

\* Field.model_validate on the dict of one field: every two-element list of
\* integers becomes a tuple, anything else is refused.
dict_to_field(data) ==
    LET parsed == [p \in 1..Len(data.positions) |->
                      <<data.positions[p].a, data.positions[p].b>>]
    IN IF \/ \E p \in 1..Len(data.positions) : data.positions[p].kind # "ints"
          \/ ~validate_positions(parsed)
       THEN [raised |-> TRUE, field |-> data]
       ELSE [raised |-> FALSE,
             field |-> [id |-> data.id, name |-> data.name, positions |-> parsed,
                        current_value |-> data.current_value]]

\* TemplateStore._dict_to_template: Template.model_validate(data).
dict_to_template(data) ==
    IF \/ ~valid_str(data.id)
       \/ ~valid_datetime(data.created_at)
       \/ ~valid_datetime(data.updated_at)
       \/ \E k \in 1..Len(data.fields) : dict_to_field(data.fields[k]).raised
    THEN [raised |-> TRUE, template |-> NoTemplate]
    ELSE [raised |-> FALSE,
          template |-> [id |-> data.id, name |-> data.name,
                        created_at |-> parse_datetime(data.created_at),
                        updated_at |-> parse_datetime(data.updated_at),
                        document_text |-> data.document_text,
                        fields |-> [k \in 1..Len(data.fields) |->
                                       dict_to_field(data.fields[k]).field],
                        metadata |-> data.metadata]]

\* The directory files_ with data written to the file n.json.
write_file(files_, n, data) ==
    [i \in DOMAIN files_ \cup {n} |-> IF i = n THEN data ELSE files_[i]]

\* TemplateStore.save_template: raised = TRUE stands for TemplateStoreError.
save_template(document_text_, fields_, name, metadata, files_, now) ==
    LET t == new_Template(uuid4(files_), name, document_text_, fields_,
                          metadata, now)
    IN IF t.raised THEN [raised |-> TRUE, files |-> files_, id |-> NoId]
       ELSE [raised |-> FALSE,
             files |-> write_file(files_, t.template.id.n,
                                  template_to_dict(t.template)),
             id |-> t.template.id]

\* TemplateStore.load_template: error is "" when a Template is returned.
load_template(template_id, files_) ==
    IF template_id.n \notin DOMAIN files_
    THEN [error |-> "TemplateNotFoundError", template |-> NoTemplate]
    ELSE LET t == dict_to_template(files_[template_id.n])
         IN IF t.raised
            THEN [error |-> "TemplateStoreError", template |-> NoTemplate]
            ELSE [error |-> "", template |-> t.template]

\* dict.update: the pairs of other, and the pairs of metadata whose key
\* other does not hold.
dict_update(metadata, other) ==
    other \cup {kv \in metadata : \A o \in other : o[1] # kv[1]}

\* field.model_dump() inside updates.model_dump(exclude_unset=True): the
\* Field of a request becomes a dict.
field_model_dump(field) ==
    [dict |-> TRUE, id |-> field.id, name |-> field.name,
     positions |-> field.positions, current_value |-> field.current_value]

\* TemplateStore.update_template when the clock shows now; updates.set is
\* the set of attributes the request sets.  error is "" when the updated
\* Template is returned.
update_template(template_id, updates_, files_, now) ==
    LET l == load_template(template_id, files_)
        t == [l.template EXCEPT
                 !.name = IF "name" \in updates_.set
                          THEN updates_.name ELSE @,
                 !.document_text = IF "document_text" \in updates_.set
                                   THEN updates_.document_text ELSE @,
                 !.fields = IF "fields" \in updates_.set
                            THEN [k \in 1..Len(updates_.fields) |->
                                     field_model_dump(updates_.fields[k])]
                            ELSE @,
                 !.metadata = IF "metadata" \in updates_.set
                              THEN dict_update(@, updates_.metadata) ELSE @,
                 !.updated_at = datetime(now)]
    IN IF l.error # ""
       THEN [error |-> l.error, files |-> files_, template |-> NoTemplate]
       ELSE IF template_to_dict_raises(t)
       THEN [error |-> "TemplateStoreError", files |-> files_,
             template |-> NoTemplate]
       ELSE [error |-> "",
             files |-> write_file(files_, template_id.n, template_to_dict(t)),
             template |-> t]

\* TemplateStore.template_exists
template_exists(template_id, files_) == template_id.n \in DOMAIN files_

\* TemplateStore.delete_template: error is "" when True is returned.
delete_template(template_id, files_) ==
    IF ~template_exists(template_id, files_)
    THEN [error |-> "TemplateNotFoundError", files |-> files_]
    ELSE [error |-> "",
          files |-> [i \in DOMAIN files_ \ {template_id.n} |-> files_[i]]]

\* TemplateStore.get_template_count
get_template_count(files_) == Cardinality(DOMAIN files_)

----------------------------------------------------------------------------
(* The store specification: a document text and a field set that satisfy   *)
(* the Document invariant are saved as a template, which is then loaded.   *)

TemplateName == <<"n">>

InitStore ==
    /\ document_text \in StoredTexts
    /\ fields \in StoredFieldLists(document_text)
    /\ pre_text = document_text
    /\ pre_fields = fields
    /\ updates = NoUpdates
    /\ outcome = "ready"
    /\ InitOther

\* A call of save_template(document_text, fields, name).
SaveTemplate ==
    /\ outcome = "ready"
    /\ LET r == save_template(document_text, fields, TemplateName, {}, files,
                               clock)
       IN /\ files' = r.files
          /\ saved_id' = r.id
          /\ outcome' = IF r.raised THEN "TemplateStoreError" ELSE "saved"
    /\ UNCHANGED <<document_text, fields, pre_text, pre_fields, updates,
                   reference, matched, response, detected, llm_reply, requests,
                   loaded, live, pre_files, called_id, request, clock, call,
                   other_vars>>

\* A call of load_template(template_id), by this store or by another store
\* on the same path, after the save.
LoadTemplate ==
    /\ outcome \in {"saved", "TemplateStoreError"}
    /\ \E n \in 1..MaxTemplates :
          LET r == load_template([kind |-> "str", n |-> n], files)
          IN /\ loaded' = r.template
             /\ outcome' = IF r.error = "" THEN "loaded" ELSE r.error
    /\ UNCHANGED <<document_text, fields, pre_text, pre_fields, updates,
                   reference, matched, response, detected, llm_reply, requests,
                   files, saved_id, live, pre_files, called_id, request, clock,
                   call, other_vars>>

NextStore ==
    \/ SaveTemplate
    \/ LoadTemplate

SpecStore == InitStore /\ [][NextStore]_vars

\* The template t holds the text and, in the same order, the fields of the
\* request, with identical name, ranges and current value.
SameDocument(t) ==
    /\ t.document_text = document_text
    /\ Len(t.fields) = Len(fields)
    /\ \A k \in 1..Len(fields) :
          /\ t.fields[k].name = fields[k].name
          /\ t.fields[k].positions = fields[k].positions
          /\ t.fields[k].current_value = fields[k].current_value

\* C20: round trip: for a document text and a field set passing ingestion
\* validation, saving it as a template and loading it back, through this
\* store or another one on the same path, yields the same text and the same
\* fields in the same order with identical (name, ranges, current_value).
C20_RoundTrip ==
    outcome \in {"saved", "TemplateStoreError"} =>
        LET r == load_template(saved_id, files)
        IN r.error = "" /\ SameDocument(r.template)

\* What the two conversions of the store do to a Template whose id is a str:
\* _dict_to_template undoes _template_to_dict.
SerializationRoundTrip ==
    LET t == [id |-> str_of(uuid4(files)), name |-> TemplateName,
              created_at |-> datetime(clock), updated_at |-> datetime(clock),
              document_text |-> document_text, fields |-> fields,
              metadata |-> {}]
    IN dict_to_template(template_to_dict(t)) = [raised |-> FALSE, template |-> t]

----------------------------------------------------------------------------
(* The lifecycle specification: a store on a directory that holds the      *)
(* template files earlier runs left there receives save_template,          *)
(* load_template, update_template and delete_template calls.               *)

MaxCalls == 3

\* The ids of the calls: those a file can be named after, and one more.
CallIds == {[kind |-> "str", n |-> n] : n \in 1..(MaxTemplates + 1)}

LifecycleText == <<"a", "b", "a">>
StoredFields == <<MakeField(1, <<"b">>, <<<<1, 2>>>>, LifecycleText)>>
StoredMetadata == {{}, {<<"key1", "v1">>, <<"key3", "v3">>}}

\* The file of a template that was created when the clock showed 0.
StoredFile(n, metadata) ==
    template_to_dict([id |-> [kind |-> "str", n |-> n], name |-> TemplateName,
                      created_at |-> datetime(0), updated_at |-> datetime(0),
                      document_text |-> LifecycleText, fields |-> StoredFields,
                      metadata |-> metadata])

\* The directories a store starts on: none, one or two template files, each
\* named after the id it holds.
InitialDirectories ==
    UNION {{d \in [S -> {StoredFile(n, md) : n \in S, md \in StoredMetadata}] :
               \A n \in S : d[n].id.n = n} :
              S \in SUBSET (1..MaxTemplates)}

\* The requests of update_template: any set of attributes set, an attribute
\* that is not set holding its default.
RequestedFields ==
    {<<>>, <<MakeField(2, <<"a">>, <<<<0, 1>>>>, <<"b", "a">>)>>}
RequestedMetadata == {{<<"key1", "w">>, <<"key2", "v2">>}}
UpdateRequests ==
    {[set |-> s, name |-> IF "name" \in s THEN <<"m">> ELSE <<>>,
      document_text |-> IF "document_text" \in s THEN <<"b", "a">> ELSE <<>>,
      fields |-> IF "fields" \in s THEN f ELSE <<>>,
      metadata |-> IF "metadata" \in s THEN md ELSE {}] :
        s \in SUBSET {"name", "document_text", "fields", "metadata"},
        f \in RequestedFields, md \in RequestedMetadata}

InitLifecycle ==
    /\ document_text = LifecycleText
    /\ fields = StoredFields
    /\ pre_text = document_text
    /\ pre_fields = fields
    /\ updates = NoUpdates
    /\ outcome = "ready"
    /\ files \in InitialDirectories
    /\ live = DOMAIN files
    /\ pre_files = files
    /\ saved_id = NoId
    /\ loaded = NoTemplate
    /\ called_id = NoId
    /\ request = NoRequest
    /\ clock = 1
    /\ call = "none"
    /\ reference = <<>>
    /\ matched = 0
    /\ response = <<>>
    /\ detected = <<>>
    /\ llm_reply = "none"
    /\ requests = 0
    /\ proposal = NoProposal
    /\ parsed_update = NoParsedUpdate
    /\ InitDocumentStore
    /\ InitAIClient

\* What every call leaves alone.
LifecycleFrame ==
    /\ requests' = requests + 1
    /\ clock' = clock + 1
    /\ pre_files' = files
    /\ UNCHANGED <<document_text, fields, pre_text, pre_fields, updates,
                   reference, matched, response, detected, llm_reply,
                   other_vars>>

\* A call of save_template(document_text, fields, name).
SaveCall ==
    /\ requests < MaxCalls
    /\ get_template_count(files) < MaxTemplates
    /\ LET r == save_template(document_text, fields, TemplateName, {}, files,
                               clock)
       IN /\ files' = r.files
          /\ saved_id' = r.id
          /\ live' = IF r.raised THEN live ELSE live \cup {r.id.n}
          /\ outcome' = IF r.raised THEN "TemplateStoreError" ELSE "saved"
    /\ call' = "save"
    /\ called_id' = NoId
    /\ request' = NoRequest
    /\ loaded' = NoTemplate
    /\ LifecycleFrame

\* A call of load_template(template_id).
LoadCall ==
    /\ requests < MaxCalls
    /\ \E id \in CallIds :
          LET r == load_template(id, files)
          IN /\ loaded' = r.template
             /\ outcome' = IF r.error = "" THEN "loaded" ELSE r.error
             /\ called_id' = id
    /\ call' = "load"
    /\ request' = NoRequest
    /\ UNCHANGED <<files, saved_id, live>>
    /\ LifecycleFrame

\* A call of update_template(template_id, updates).
UpdateCall ==
    /\ requests < MaxCalls
    /\ \E id \in CallIds, u \in UpdateRequests :
          LET r == update_template(id, u, files, clock)
          IN /\ files' = r.files
             /\ loaded' = r.template
             /\ outcome' = IF r.error = "" THEN "updated" ELSE r.error
             /\ called_id' = id
             /\ request' = u
    /\ call' = "update"
    /\ UNCHANGED <<saved_id, live>>
    /\ LifecycleFrame

\* A call of delete_template(template_id).
DeleteCall ==
    /\ requests < MaxCalls
    /\ \E id \in CallIds :
          LET r == delete_template(id, files)
          IN /\ files' = r.files
             /\ live' = IF r.error = "" THEN live \ {id.n} ELSE live
             /\ outcome' = IF r.error = "" THEN "deleted" ELSE r.error
             /\ called_id' = id
    /\ call' = "delete"
    /\ request' = NoRequest
    /\ loaded' = NoTemplate
    /\ UNCHANGED saved_id
    /\ LifecycleFrame

NextLifecycle ==
    \/ SaveCall
    \/ LoadCall
    \/ UpdateCall
    \/ DeleteCall

SpecLifecycle == InitLifecycle /\ [][NextLifecycle]_vars

\* Whether the last call named an id that was not live when it started.
CalledOtherId ==
    /\ call \in {"load", "update", "delete"}
    /\ called_id.n \notin live
    /\ outcome # "deleted"

\* template_exists and load_template tell the live ids from the others, a
\* call on another id raises TemplateNotFoundError and leaves the directory
\* alone, and get_template_count counts the live ids.
LiveIdsExist ==
    /\ \A id \in CallIds :
          /\ template_exists(id, files) <=> id.n \in live
          /\ load_template(id, files).error = "" <=> id.n \in live
    /\ CalledOtherId => outcome = "TemplateNotFoundError" /\ files = pre_files
    /\ get_template_count(files) = Cardinality(live)

\* C21: template lifecycle: after any sequence of save_template,
\* update_template and delete_template calls, a save has returned an id,
\* template_exists(id) is true and load_template(id) succeeds exactly for
\* the ids returned by a save and not deleted since; load, update and delete
\* of any other id raise TemplateNotFoundError and change nothing;
\* get_template_count equals the number of live ids.
C21_Lifecycle ==
    /\ call = "save" => outcome = "saved" /\ saved_id.n \in live
    /\ LiveIdsExist

\* The Template the file of the called id held when the last call started.
StoredBefore == load_template(called_id, pre_files).template

\* What update_template returned differs from the stored template only in
\* what the request sets.
OnlyWhatTheRequestSets ==
    /\ loaded.id = StoredBefore.id
    /\ loaded.created_at = StoredBefore.created_at
    /\ loaded.name =
          IF "name" \in request.set THEN request.name ELSE StoredBefore.name
    /\ loaded.document_text =
          IF "document_text" \in request.set THEN request.document_text
          ELSE StoredBefore.document_text
    /\ loaded.fields =
          IF "fields" \in request.set THEN request.fields
          ELSE StoredBefore.fields
    /\ \A kv \in loaded.metadata :
          \/ "metadata" \in request.set /\ kv \in request.metadata
          \/ kv \in StoredBefore.metadata
    /\ "metadata" \in request.set => request.metadata \subseteq loaded.metadata
    /\ \A kv \in StoredBefore.metadata :
          \/ kv \in loaded.metadata
          \/ "metadata" \in request.set
               /\ \E o \in request.metadata : o[1] = kv[1]

\* C22: update_template of a stored template returns the template changed
\* only in what the request sets: attributes left unset (name,
\* document_text, fields) keep their stored values, metadata keys are merged
\* into the existing metadata, the id and created_at never change, and the
\* returned template equals what a following load_template returns.
C22_UpdateFrame ==
    (call = "update" /\ template_exists(called_id, pre_files)) =>
        /\ outcome = "updated"
        /\ OnlyWhatTheRequestSets
        /\ load_template(called_id, files) = [error |-> "", template |-> loaded]

\* The same for the requests update_template can write: those that set no
\* field list or an empty one.
UpdateFrameWithoutFields ==
    (call = "update" /\ template_exists(called_id, pre_files)
       /\ request.fields = <<>>) =>
        /\ outcome = "updated"
        /\ OnlyWhatTheRequestSets
        /\ load_template(called_id, files) = [error |-> "", template |-> loaded]

\* A request that sets a field list with a Field in it is refused, and the
\* file keeps what it held.
UpdateWithFieldsRaises ==
    (call = "update" /\ template_exists(called_id, pre_files)
       /\ request.fields # <<>>) =>
        outcome = "TemplateStoreError" /\ files = pre_files

----------------------------------------------------------------------------
(* DocumentStore.  The uploads directory holds, for an upload, the document *)
(* file named after its id and the file <id>.meta.json with its metadata.   *)
(* Time is counted in hours.                                                *)

MaxUploads == 2
MaxHours == 3
MaxCleanups == 2

\* UUID(s): the UUID object of the string s.
UUID_of(s) == [kind |-> "UUID", n |-> s.n]

\* DocumentStore._save_metadata: the data of the .meta.json file.
upload_metadata(file_id, now) ==
    [file_id |-> str_of(file_id), filename |-> <<"f">>,
     uploaded_at |-> isoformat(datetime(now))]

\* DocumentStore._cleanup_file on the set of document files.
cleanup_file_documents(file_id, documents) == documents \ {file_id.n}

\* DocumentStore._cleanup_file on the metadata files.
cleanup_file_metadata(file_id, meta) ==
    [i \in DOMAIN meta \ {file_id.n} |-> meta[i]]

\* older_than_hours or self.auto_cleanup_hours
hours_or_default(older_than_hours_, auto_cleanup_hours_) ==
    IF older_than_hours_.kind = "None" \/ older_than_hours_.h = 0
    THEN auto_cleanup_hours_
    ELSE older_than_hours_.h

\* The ids the loop of cleanup_old_uploads cleans up: those whose metadata
\* file gives an uploaded_at before the cutoff.
old_uploads(meta, cutoff_time) ==
    {UUID_of(meta[i].file_id) : i \in
        {j \in DOMAIN meta : parse_datetime(meta[j].uploaded_at).t < cutoff_time}}

\* DocumentStore.cleanup_old_uploads when the clock shows now.
cleanup_old_uploads(older_than_hours_, auto_cleanup_hours_, documents, meta, now) ==
    LET hours == hours_or_default(older_than_hours_, auto_cleanup_hours_)
        cutoff_time == now - hours
        old == old_uploads(meta, cutoff_time)
        RECURSIVE clean(_, _, _)
        clean(ids, d, m_) ==
            IF ids = {} THEN [documents |-> d, meta |-> m_]
            ELSE LET file_id == CHOOSE x \in ids : TRUE
                 IN clean(ids \ {file_id}, cleanup_file_documents(file_id, d),
                          cleanup_file_metadata(file_id, m_))
        r == clean(old, documents, meta)
    IN [documents |-> r.documents, meta |-> r.meta,
        deleted_count |-> Cardinality(old)]

\* DocumentStore.save_upload when the clock shows now: the document file and
\* the metadata file of a new id.
save_upload(documents, meta, now) ==
    LET file_id == [kind |-> "UUID",
                    n |-> CHOOSE n \in 1..(MaxUploads + 1) :
                             n \notin documents \cup DOMAIN meta]
    IN [documents |-> documents \cup {file_id.n},
        meta |-> [i \in DOMAIN meta \cup {file_id.n} |->
                     IF i = file_id.n THEN upload_metadata(file_id, now)
                     ELSE meta[i]],
        id |-> file_id]

----------------------------------------------------------------------------
(* The uploads specification: a document store receives uploads while time  *)
(* passes, and cleanup_old_uploads is called with or without hours.         *)

AutoCleanupHours == {1, 2}
HoursArguments == {NoHours} \cup {[kind |-> "int", h |-> h] : h \in 0..2}

InitUploads ==
    /\ document_text = <<>>
    /\ fields = <<>>
    /\ pre_text = <<>>
    /\ pre_fields = <<>>
    /\ updates = NoUpdates
    /\ outcome = "ready"
    /\ InitRest
    /\ upload_files = {}
    /\ upload_meta = <<>>
    /\ pre_upload_files = {}
    /\ pre_upload_meta = <<>>
    /\ auto_cleanup_hours \in AutoCleanupHours
    /\ older_than_hours = NoHours
    /\ deleted_count = 0
    /\ utcnow = 0
    /\ InitAIClient

\* What the calls of the document store leave alone.
UploadsFrame ==
    UNCHANGED <<document_text, fields, pre_text, pre_fields, updates,
                reference, matched, response, detected, llm_reply,
                store_vars, llm_vars, parse_vars, auto_cleanup_hours>>

\* An hour passes.
HourPasses ==
    /\ utcnow < MaxHours
    /\ utcnow' = utcnow + 1
    /\ outcome' = "waited"
    /\ UNCHANGED <<requests, upload_files, upload_meta,
                   pre_upload_files, pre_upload_meta, older_than_hours,
                   deleted_count>>
    /\ UploadsFrame

\* A call of save_upload(file_data, filename).
SaveUpload ==
    /\ Cardinality(upload_files) < MaxUploads
    /\ LET r == save_upload(upload_files, upload_meta, utcnow)
       IN /\ upload_files' = r.documents
          /\ upload_meta' = r.meta
    /\ outcome' = "uploaded"
    /\ UNCHANGED <<requests, utcnow, pre_upload_files, pre_upload_meta,
                   older_than_hours, deleted_count>>
    /\ UploadsFrame

\* A call of cleanup_old_uploads(older_than_hours).
CleanupOldUploads ==
    /\ requests < MaxCleanups
    /\ \E h \in HoursArguments :
          LET r == cleanup_old_uploads(h, auto_cleanup_hours, upload_files,
                                       upload_meta, utcnow)
          IN /\ upload_files' = r.documents
             /\ upload_meta' = r.meta
             /\ deleted_count' = r.deleted_count
             /\ older_than_hours' = h
    /\ pre_upload_files' = upload_files
    /\ pre_upload_meta' = upload_meta
    /\ outcome' = "cleaned"
    /\ requests' = requests + 1
    /\ UNCHANGED utcnow
    /\ UploadsFrame

NextUploads ==
    \/ HourPasses
    \/ SaveUpload
    \/ CleanupOldUploads

SpecUploads == InitUploads /\ [][NextUploads]_vars

\* The uploads that were older than hours_ when the last cleanup started.
OlderThan(hours_) ==
    {i \in DOMAIN pre_upload_meta :
        pre_upload_meta[i].uploaded_at.t < utcnow - hours_}

\* The last cleanup deleted exactly the uploads older than hours_, returned
\* their number, and left every other upload with its document file and its
\* metadata.
CleanedOlderThan(hours_) ==
    /\ upload_files = pre_upload_files \ OlderThan(hours_)
    /\ DOMAIN upload_meta = DOMAIN pre_upload_meta \ OlderThan(hours_)
    /\ \A i \in DOMAIN upload_meta : upload_meta[i] = pre_upload_meta[i]
    /\ deleted_count = Cardinality(OlderThan(hours_))

\* C23: cleanup_old_uploads deletes exactly the uploads whose uploaded_at is
\* earlier than now minus the given number of hours, using
\* auto_cleanup_hours if and only if older_than_hours is None; it returns the
\* number of uploads it deleted and every upload not older than the cutoff
\* stays retrievable with its metadata.
C23_CleanupOldUploads ==
    outcome = "cleaned" =>
        CleanedOlderThan(IF older_than_hours = NoHours
                         THEN auto_cleanup_hours ELSE older_than_hours.h)

\* The same for every argument but 0.
CleanupWithPositiveHours ==
    (outcome = "cleaned" /\ older_than_hours.h # 0) =>
        CleanedOlderThan(older_than_hours.h)

\* The same without an argument.
CleanupWithDefaultHours ==
    (outcome = "cleaned" /\ older_than_hours = NoHours) =>
        CleanedOlderThan(auto_cleanup_hours)

----------------------------------------------------------------------------
(* AIClient.call_llm.  A provider call gives a response or raises the       *)
(* provider's RateLimitError, another APIError of the provider, or some     *)
(* other Exception.                                                         *)

MaxRetries == 3

\* The except clause of call_llm that catches an exception of the provider
\* in use.  When the package of the other provider is missing, its
\* RateLimitError is Exception, and the first clause catches everything.
except_clause(exception, catch_all_) ==
    IF exception = "RateLimitError" \/ catch_all_ THEN "rate_limit"
    ELSE IF exception = "APIError" THEN "api_error"
    ELSE "other"

\* attempt == self.max_retries - 1, kept inside the loop
last_attempt_never(attempt_, max_retries_) == FALSE

\* attempt == self.max_retries - 1
last_attempt(attempt_, max_retries_) == attempt_ = max_retries_ - 1

\* What call_llm does with what the provider call of attempt_ gave: the
\* next position and the result.
after_provider_call(given, attempt_, max_retries_, catch_all_) ==
    IF given.kind = "response"
    THEN [pc |-> "done", result |-> [kind |-> "returned", text |-> given.text]]
    ELSE LET clause == except_clause(given.kind, catch_all_)
         IN IF clause = "other"
            THEN [pc |-> "done",
                  result |-> [kind |-> "AIClientError", text |-> ""]]
            ELSE IF last_attempt(attempt_, max_retries_)
            THEN [pc |-> "done",
                  result |-> [kind |-> IF clause = "rate_limit"
                                       THEN "AIRateLimitError"
                                       ELSE "AIClientError",
                              text |-> ""]]
            ELSE [pc |-> "sleep", result |-> NoResult]

\* for attempt in range(self.max_retries): the loop goes on with attempt_,
\* or ends and call_llm raises AIClientError.
loop_head(attempt_, max_retries_) ==
    IF attempt_ < max_retries_
    THEN [pc |-> "attempt", result |-> NoResult]
    ELSE [pc |-> "done", result |-> [kind |-> "AIClientError", text |-> ""]]

----------------------------------------------------------------------------
(* The call_llm specification: one call of call_llm on a client with any   *)
(* max_retries.                                                            *)

ProviderResults ==
    {[kind |-> "response", text |-> t] : t \in {"r1", "r2"}}
        \cup {[kind |-> k, text |-> ""] :
                 k \in {"RateLimitError", "APIError", "Exception"}}

InitCallLlm ==
    /\ document_text = <<>>
    /\ fields = <<>>
    /\ pre_text = <<>>
    /\ pre_fields = <<>>
    /\ updates = NoUpdates
    /\ outcome = "ready"
    /\ InitRest
    /\ InitDocumentStore
    /\ max_retries \in 0..MaxRetries
    /\ catch_all \in BOOLEAN
    /\ pc = "idle"
    /\ attempt = 0
    /\ provider_calls = 0
    /\ sleeps = 0
    /\ attempts = <<>>
    /\ llm_result = NoResult

\* What the steps of call_llm leave alone.
CallLlmFrame ==
    UNCHANGED <<document_text, fields, pre_text, pre_fields, updates, outcome,
                reference, matched, response, detected, llm_reply, requests,
                store_vars, upload_vars, parse_vars, max_retries, catch_all>>

\* call_llm is called and reaches the head of its loop.
CallLlm ==
    /\ pc = "idle"
    /\ attempt' = 0
    /\ pc' = loop_head(0, max_retries).pc
    /\ llm_result' = loop_head(0, max_retries).result
    /\ UNCHANGED <<provider_calls, sleeps, attempts>>
    /\ CallLlmFrame

\* The provider call of one attempt, and what the try statement does with
\* what it gives.
ProviderCall ==
    /\ pc = "attempt"
    /\ \E given \in ProviderResults :
          LET r == after_provider_call(given, attempt, max_retries, catch_all)
          IN /\ attempts' = Append(attempts, given)
             /\ pc' = r.pc
             /\ llm_result' = r.result
    /\ provider_calls' = provider_calls + 1
    /\ UNCHANGED <<attempt, sleeps>>
    /\ CallLlmFrame

\* time.sleep(delay) returns and the loop goes on.
Sleep ==
    /\ pc = "sleep"
    /\ sleeps' = sleeps + 1
    /\ attempt' = attempt + 1
    /\ pc' = loop_head(attempt + 1, max_retries).pc
    /\ llm_result' = loop_head(attempt + 1, max_retries).result
    /\ UNCHANGED <<provider_calls, attempts>>
    /\ CallLlmFrame

NextCallLlm ==
    \/ CallLlm
    \/ ProviderCall
    \/ Sleep

SpecCallLlm == InitCallLlm /\ [][NextCallLlm]_vars

\* call_llm runs on one thread: a provider call returns or raises, a sleep
\* returns, and the statement after it is executed.
SpecCallLlmFair == SpecCallLlm /\ WF_vars(NextCallLlm)

\* The attempts so far all failed with a rate-limit or an API error.
Retryable(upto) ==
    \A i \in 1..upto : attempts[i].kind \in {"RateLimitError", "APIError"}

\* The safety part of the retry bound.
RetryBound ==
    max_retries >= 1 =>
        /\ provider_calls <= max_retries
        /\ provider_calls = Len(attempts)
        /\ \A k \in 1..Len(attempts) :
              (Retryable(k - 1) /\ attempts[k].kind = "response") =>
                  /\ k <= max_retries
                  /\ llm_result = [kind |-> "returned", text |-> attempts[k].text]
                  /\ provider_calls = k
                  /\ sleeps = k - 1
        /\ (pc = "done" /\ Retryable(Len(attempts))) =>
              Len(attempts) = max_retries
        /\ (pc = "done" /\ Len(attempts) = max_retries
               /\ \A i \in 1..max_retries : attempts[i].kind = "RateLimitError") =>
              llm_result.kind = "AIRateLimitError" /\ provider_calls = max_retries

\* C24: retry bound of call_llm: with max_retries = n >= 1 the provider is
\* called at most n times; if the first k-1 attempts fail with a rate-limit
\* or API error and attempt k <= n succeeds, the response of attempt k is
\* returned after exactly k provider calls and k-1 sleeps; if all n attempts
\* are rate-limited, AIRateLimitError is raised after exactly n calls; the
\* call always terminates.
C24_RetryBound == []RetryBound /\ <>(pc = "done")

\* A call that was rate-limited twice and then returned the third response.
C24_Witness ==
    /\ pc = "done"
    /\ max_retries = 3
    /\ Len(attempts) = 3
    /\ attempts[1].kind = "RateLimitError"
    /\ attempts[2].kind = "RateLimitError"
    /\ llm_result = [kind |-> "returned", text |-> attempts[3].text]
    /\ sleeps = 2

----------------------------------------------------------------------------
(* FieldUpdater._parse_llm_response.  JSON data is [kind, ...]: an object  *)
(* has the keys in keys; a JSON value is [kind, s] with kind "str", "int"  *)
(* or "null"; a list is [kind |-> "list", items].                          *)

MaxProposalEntries == 2

\* No FieldUpdate.
NoFieldUpdate == [field_name |-> <<>>, new_value |-> <<>>, confidence |-> "None"]

\* pydantic's validation of a value for Optional[float]: None and a number
\* are taken, a string that is no number is refused.
valid_optional_float(v) == v.kind \in {"null", "int"}

\* FieldUpdate(field_name=update_data["field_name"],
\*             new_value=update_data["new_value"],
\*             confidence=update_data.get("confidence")):
\* raised = TRUE stands for the TypeError of indexing what is no object, the
\* KeyError of a missing key and pydantic's ValidationError.
new_FieldUpdate(update_data) ==
    LET confidence == IF "confidence" \in update_data.keys
                      THEN update_data.confidence
                      ELSE [kind |-> "null", s |-> <<>>]
    IN IF \/ update_data.kind # "object"
          \/ "field_name" \notin update_data.keys
          \/ "new_value" \notin update_data.keys
          \/ ~valid_str(update_data.field_name)
          \/ ~valid_str(update_data.new_value)
          \/ ~valid_optional_float(confidence)
       THEN [raised |-> TRUE, update |-> NoFieldUpdate]
       ELSE [raised |-> FALSE,
             update |-> [field_name |-> update_data.field_name.s,
                         new_value |-> update_data.new_value.s,
                         confidence |-> IF confidence.kind = "null"
                                        THEN "None" ELSE "float"]]

\* The loop over data.get("updates", []) that stops at the first entry it
\* cannot take.
parse_updates_abort(items) ==
    LET RECURSIVE loop(_, _)
        loop(i, acc) ==
            IF i > Len(items) THEN acc
            ELSE LET u == new_FieldUpdate(items[i])
                 IN IF u.raised THEN acc
                    ELSE loop(i + 1, Append(acc, u.update))
    IN loop(1, <<>>)

\* The loop over data.get("updates", []): an entry that raises is skipped.
parse_updates(items) ==
    LET RECURSIVE loop(_, _)
        loop(i, acc) ==
            IF i > Len(items) THEN acc
            ELSE LET u == new_FieldUpdate(items[i])
                 IN loop(i + 1, IF u.raised THEN acc ELSE Append(acc, u.update))
    IN loop(1, <<>>)

\* pydantic's validation of a value for List[str].
valid_list_of_str(v) ==
    /\ v.kind = "list"
    /\ \A i \in 1..Len(v.items) : valid_str(v.items[i])

\* FieldUpdater._parse_llm_response on the data json.loads gave, kind
\* "not_json" when it gave none: raised = TRUE stands for FieldUpdateError.
parse_update_response(data) ==
    LET updates_ == IF "updates" \in data.keys THEN data.updates
                    ELSE [kind |-> "list", items |-> <<>>]
        unrecognized == IF "unrecognized_parts" \in data.keys
                        THEN data.unrecognized_parts
                        ELSE [kind |-> "list", items |-> <<>>]
    IN IF \/ data.kind # "object"
          \/ updates_.kind # "list"
          \/ ~valid_list_of_str(unrecognized)
       THEN [raised |-> TRUE, parsed |-> NoParsedUpdate]
       ELSE [raised |-> FALSE,
             parsed |-> [updates |-> parse_updates(updates_.items),
                         unrecognized_parts |->
                             [i \in 1..Len(unrecognized.items) |->
                                 unrecognized.items[i].s]]]

----------------------------------------------------------------------------
(* The proposal specification: the LLM gives any JSON data, or none, and   *)
(* _parse_llm_response parses it.                                          *)

JsonStr(s) == [kind |-> "str", s |-> s]
JsonInt == [kind |-> "int", s |-> <<>>]
JsonNull == [kind |-> "null", s |-> <<>>]

\* An entry of updates that is an object.
UpdateEntry(keys, field_name, new_value, confidence) ==
    [kind |-> "object", keys |-> keys, field_name |-> field_name,
     new_value |-> new_value, confidence |-> confidence]

ProposalNames == {<<"a">>, <<"b">>}

\* The entries of updates: complete ones, with and without a confidence,
\* entries that miss a key, entries whose values are numbers, and a string
\* in place of an object.
UpdateEntries ==
    UNION {{UpdateEntry({"field_name", "new_value"}, JsonStr(n), JsonStr(<<"X">>), JsonNull),
            UpdateEntry({"field_name", "new_value"}, JsonStr(n), JsonStr(<<>>), JsonNull),
            UpdateEntry({"field_name", "new_value", "confidence"}, JsonStr(n), JsonStr(<<"X">>), JsonInt),
            UpdateEntry({"field_name", "new_value", "confidence"}, JsonStr(n), JsonStr(<<"X">>), JsonNull),
            UpdateEntry({"field_name", "new_value", "confidence"}, JsonStr(n), JsonStr(<<"X">>), JsonStr(<<"h">>)),
            UpdateEntry({"field_name"}, JsonStr(n), JsonNull, JsonNull),
            UpdateEntry({"new_value"}, JsonNull, JsonStr(n), JsonNull),
            UpdateEntry({"field_name", "new_value"}, JsonStr(n), JsonInt, JsonNull),
            UpdateEntry({"field_name", "new_value"}, JsonInt, JsonStr(n), JsonNull)} :
              n \in ProposalNames}
        \cup {[kind |-> "str", keys |-> {}, field_name |-> JsonNull,
                new_value |-> JsonNull, confidence |-> JsonNull]}

\* What the key updates holds.
UpdatesValues ==
    {[kind |-> "list", items |-> items] :
        items \in UNION {[1..n -> UpdateEntries] : n \in 0..MaxProposalEntries}}
        \cup {[kind |-> "null", items |-> <<>>], [kind |-> "int", items |-> <<>>]}

\* What the key unrecognized_parts holds.
UnrecognizedValues ==
    {[kind |-> "list", items |-> <<>>],
     [kind |-> "list", items |-> <<JsonStr(<<"u">>)>>],
     [kind |-> "list", items |-> <<JsonStr(<<"u">>), JsonStr(<<"v">>)>>],
     [kind |-> "list", items |-> <<JsonInt>>],
     [kind |-> "null", items |-> <<>>]}

\* The JSON data of a response: an object with or without the two keys, an
\* array, or no JSON at all.
Proposals ==
    {[kind |-> "object", keys |-> {"updates", "unrecognized_parts"},
      updates |-> u, unrecognized_parts |-> p] :
        u \in UpdatesValues, p \in UnrecognizedValues}
    \cup {[kind |-> "object", keys |-> {"updates"},
           updates |-> u, unrecognized_parts |-> JsonNull] :
             u \in UpdatesValues}
    \cup {[kind |-> "object", keys |-> {},
           updates |-> JsonNull, unrecognized_parts |-> JsonNull],
          [kind |-> "array", keys |-> {},
           updates |-> JsonNull, unrecognized_parts |-> JsonNull],
          [kind |-> "not_json", keys |-> {},
           updates |-> JsonNull, unrecognized_parts |-> JsonNull]}

InitProposal ==
    /\ document_text = <<>>
    /\ fields = <<>>
    /\ pre_text = <<>>
    /\ pre_fields = <<>>
    /\ updates = NoUpdates
    /\ outcome = "ready"
    /\ files = <<>>
    /\ saved_id = NoId
    /\ loaded = NoTemplate
    /\ live = {}
    /\ pre_files = <<>>
    /\ called_id = NoId
    /\ request = NoRequest
    /\ clock = 0
    /\ call = "none"
    /\ reference = <<>>
    /\ matched = 0
    /\ response = <<>>
    /\ detected = <<>>
    /\ llm_reply = "none"
    /\ requests = 0
    /\ proposal \in Proposals
    /\ parsed_update = NoParsedUpdate
    /\ InitDocumentStore
    /\ InitAIClient

\* What parsing leaves alone.
ProposalFrame ==
    UNCHANGED <<document_text, fields, pre_text, pre_fields, updates,
                reference, matched, response, detected, llm_reply, requests,
                store_vars, upload_vars, llm_vars, proposal>>

\* _parse_llm_response returns a ParsedUpdate.
ParseProposal ==
    /\ outcome = "ready"
    /\ ~parse_update_response(proposal).raised
    /\ parsed_update' = parse_update_response(proposal).parsed
    /\ outcome' = "parsed"
    /\ ProposalFrame

\* _parse_llm_response raises FieldUpdateError.
ParseProposalFails ==
    /\ outcome = "ready"
    /\ parse_update_response(proposal).raised
    /\ parsed_update' = NoParsedUpdate
    /\ outcome' = "FieldUpdateError"
    /\ ProposalFrame

NextProposal ==
    \/ ParseProposal
    \/ ParseProposalFails

SpecProposal == InitProposal /\ [][NextProposal]_vars

\* The list the key holds in the proposal, empty when the key is missing.
ItemsOf(key) ==
    IF key \notin proposal.keys THEN <<>>
    ELSE IF key = "updates" THEN proposal.updates.items
    ELSE proposal.unrecognized_parts.items

\* The entry carries both field_name and new_value.
CarriesBoth(e) == e.kind = "object" /\ {"field_name", "new_value"} \subseteq e.keys

\* The entry carries a string field_name, a string new_value and no
\* confidence other than null or a number.
CarriesBothWellTyped(e) ==
    /\ CarriesBoth(e)
    /\ e.field_name.kind = "str"
    /\ e.new_value.kind = "str"
    /\ "confidence" \in e.keys => e.confidence.kind \in {"null", "int"}

\* The parsed batch names, in order, the fields and values of entries.
BatchIs(entries) ==
    /\ Len(parsed_update.updates) = Len(entries)
    /\ \A i \in 1..Len(entries) :
          /\ parsed_update.updates[i].field_name = entries[i].field_name.s
          /\ parsed_update.updates[i].new_value = entries[i].new_value.s

\* unrecognized_parts is what the proposal holds.
PassedThrough ==
    /\ Len(parsed_update.unrecognized_parts) = Len(ItemsOf("unrecognized_parts"))
    /\ \A i \in 1..Len(parsed_update.unrecognized_parts) :
          parsed_update.unrecognized_parts[i] = ItemsOf("unrecognized_parts")[i].s

\* The proposal is an object whose updates, if any, is a list and whose
\* unrecognized_parts, if any, is a list of strings.
WellFormedProposal ==
    /\ proposal.kind = "object"
    /\ "updates" \in proposal.keys => proposal.updates.kind = "list"
    /\ "unrecognized_parts" \in proposal.keys =>
          /\ proposal.unrecognized_parts.kind = "list"
          /\ \A i \in 1..Len(proposal.unrecognized_parts.items) :
                proposal.unrecognized_parts.items[i].kind = "str"

----------------------------------------------------------------------------
(* Detection entries, once more.                                           *)

\* Entry e is complete, of an accepted type, and its only position has a
\* negative index.
OnlyPositionNegative(e) ==
    /\ AllKeys \subseteq e.keys
    /\ e.type \in {"text", "date", "number"}
    /\ Len(e.positions) = 1
    /\ e.positions[1].kind = "ints"
    /\ e.positions[1].a < 0

\* C26: a detection entry whose only position has a negative index is
\* skipped without raising: _create_field_from_dict returns None for it
\* instead of a Field.
C26_NegativePositionReturnsNone ==
    outcome = "detected" =>
        \A k \in 1..Len(response) :
            OnlyPositionNegative(response[k]) =>
                ~create_field_from_dict(response[k], document_text).raised

\* What the code does with such an entry: _create_field_from_dict raises,
\* and detection returns the fields of the other entries only.
NegativePositionRaisesAndIsSkipped ==
    outcome = "detected" =>
        /\ \A k \in 1..Len(response) :
              OnlyPositionNegative(response[k]) =>
                  /\ create_field_from_dict(response[k], document_text).raised
                  /\ k \notin PassingEntries
        /\ Len(detected) = Cardinality(PassingEntries)

----------------------------------------------------------------------------
(* Batches that name a field twice, and empty references.                  *)

\* The two updates of the batch resolve to the same field.
SameFieldTwice ==
    /\ Len(updates) = 2
    /\ resolve_field(updates[1].field_name, pre_fields)
          = resolve_field(updates[2].field_name, pre_fields)

\* C27: each range of a field is replaced at most once per batch: when two
\* updates of one batch resolve to the same field (same name twice, or two
\* references that fuzzy-match the same field), the returned text equals the
\* text obtained by applying just one of those two updates, for new values
\* of any lengths.
C27_ReplacedAtMostOnce ==
    (outcome = "applied" /\ SameFieldTwice /\ InBounds /\ NonOverlapping) =>
        \E i \in 1..2 :
            document_text = apply_updates(pre_text, <<updates[i]>>, pre_fields).text

\* C27 for two new values of the same length as the field's ranges: the
\* text is the one the second update alone gives.
ReplacedOnceForEqualLengths ==
    (outcome = "applied" /\ SameFieldTwice /\ InBounds /\ NonOverlapping
       /\ \A kp \in Targeted : \A i \in 1..2 :
             Len(updates[i].new_value) = EndOf(kp) - StartOf(kp)) =>
        document_text = apply_updates(pre_text, <<updates[2]>>, pre_fields).text

\* No registered field has the empty name.
NoEmptyName == \A k \in 1..Len(fields) : fields[k].name # <<>>

\* C28: a reference whose normalized form is the empty string resolves to
\* no field: _fuzzy_match_field returns None for it, and apply_updates
\* raises field-not-found for an update with an empty field_name rather than
\* rewriting the first registered field.
C28_EmptyReferenceResolvesToNone ==
    (outcome \in {"matched", "resolved"} /\ NoEmptyName
       /\ normalize_reference(reference) = <<>>) =>
        /\ matched = 0
        /\ apply_updates(document_text,
                         <<[field_name |-> reference, new_value |-> <<"X">>]>>,
                         fields).raised

\* What the code does with such a reference: it resolves to the first
\* registered field, if there is one.
EmptyReferenceResolvesToFirst ==
    (outcome \in {"matched", "resolved"} /\ NoEmptyName
       /\ normalize_reference(reference) = <<>>) =>
        matched = IF fields = <<>> THEN 0 ELSE 1

\* The valid positions of entry e, in their original order.
ValidPositionsOf(e) ==
    LET passing == PassingPositions(e, Len(document_text))
    IN [q \in 1..Cardinality(passing) |->
           <<e.positions[NthOf(passing, q)].a, e.positions[NthOf(passing, q)].b>>]

\* C29: position filtering inside one detection entry: an entry with at
\* least one valid position is kept with exactly its valid positions, in
\* their original order, the invalid ones being silently removed; the entry
\* is dropped only when none of its positions is valid.
C29_PositionFiltering ==
    outcome = "detected" =>
        /\ \A k \in 1..Len(response) :
              ({"name", "type", "positions"} \subseteq response[k].keys
                 /\ response[k].type \in {"text", "date", "number"}) =>
                  (k \in PassingEntries
                     <=> PassingPositions(response[k], Len(document_text)) # {})
        /\ Len(detected) = Cardinality(PassingEntries)
        /\ \A j \in 1..Len(detected) :
              detected[j].positions =
                  ValidPositionsOf(response[NthOf(PassingEntries, j)])

\* An entry whose first position has a negative index and whose second is
\* valid was kept with the second only.
C29_Witness ==
    /\ outcome = "detected"
    /\ Len(response) = 1
    /\ Len(response[1].positions) = 2
    /\ response[1].positions[1].kind = "ints"
    /\ response[1].positions[1].a < 0
    /\ Len(detected) = 1
    /\ detected[1].positions
          = <<<<response[1].positions[2].a, response[1].positions[2].b>>>>

\* Entry e has a name and at least one valid position.
ValidNameAndPositions(e) ==
    /\ {"name", "type", "positions"} \subseteq e.keys
    /\ PassingPositions(e, Len(document_text)) # {}

\* C30: detection keeps an entry only if its type is text, date or number:
\* an entry with valid name and positions but type email, phone, address or
\* custom is dropped from the detection result, although the Field model
\* accepts all seven types.
C30_TypeRestriction ==
    outcome = "detected" =>
        /\ \A j \in 1..Len(detected) :
              detected[j].type \in {"text", "date", "number"}
        /\ Len(detected) =
              Cardinality({k \in 1..Len(response) :
                              /\ ValidNameAndPositions(response[k])
                              /\ response[k].type \notin
                                    {"email", "phone", "address", "custom"}})
        /\ {"email", "phone", "address", "custom"} \subseteq FieldTypes

\* An entry of type email with a name and a valid position was dropped, and
\* the text entry behind it was kept.
C30_Witness ==
    /\ outcome = "detected"
    /\ Len(response) = 2
    /\ ValidNameAndPositions(response[1])
    /\ response[1].type = "email"
    /\ ValidNameAndPositions(response[2])
    /\ Len(detected) = 1
    /\ detected[1].type = "text"
    /\ detected[1].name = response[2].name

====
